---- MODULE Spec2Model ----
(***************************************************************************)
(* Verification model of pantheon-org/opencode-font:                       *)
(*   - scripts/generate-fonts.ts : the font generation pipeline (main),    *)
(*   - scripts/validate-fonts.sh : the font validator,                     *)
(*   - src/convertTextToSVG.ts   : convertTextToSVG / escapeXml.           *)
(* Five specifications share the module: Spec (pipeline), SpecValidate     *)
(* (validator), SpecConvert (convertTextToSVG), SpecGrid (gridToSVGPath)   *)
(* and SpecBlock (blockyTextToSVG).  Each keeps the variables of the       *)
(* others at their initial values.                                         *)
(***************************************************************************)
EXTENDS Integers, Sequences, FiniteSets, TLC

\* ------------------------------------------------------------------------
\* Bounds of the model (not program constants)
\* ------------------------------------------------------------------------
\* longest text handed to convertTextToSVG
MaxTextLen == 3
\* how far around each size ceiling the validator's file sizes are sampled
SizeSlack == 1
\* most rows defined in a partial grid handed to gridToSVGPath
MaxDefinedRows == 2
\* longest text handed to blockyTextToSVG
MaxBlockText == 3

\* optional values (undefined / a value)
None == << >>
Some(v) == <<v>>

\* ------------------------------------------------------------------------
\* generate-fonts.ts : CONFIG
\* ------------------------------------------------------------------------
CONFIG ==
  [fontName |-> "OpenCodeLogo", fontHeight |-> 1000, descent |-> 200,
   normalize |-> TRUE, outputDir |-> "fonts", tempDir |-> "fonts/.temp-glyphs",
   blockSize |-> 100]

\* ------------------------------------------------------------------------
\* generate-fonts.ts : GLYPHS (7 rows x 4 columns, 0 = empty, 1 = filled)
\* ------------------------------------------------------------------------
LetterGlyphs ==
  ("A" :> [unicode |-> 65, glyph |-> [rows |->
        0 :> <<0,0,0,0>> @@ 1 :> <<1,1,1,1>> @@ 2 :> <<0,0,0,1>> @@ 3 :> <<1,1,1,1>> @@ 4 :> <<1,0,0,1>> @@ 5 :> <<1,1,1,1>> @@ 6 :> <<0,0,0,0>>]])
  @@ ("B" :> [unicode |-> 66, glyph |-> [rows |->
        0 :> <<0,0,0,0>> @@ 1 :> <<1,1,1,1>> @@ 2 :> <<1,0,0,1>> @@ 3 :> <<1,1,1,1>> @@ 4 :> <<1,0,0,1>> @@ 5 :> <<1,1,1,1>> @@ 6 :> <<0,0,0,0>>]])
  @@ ("C" :> [unicode |-> 67, glyph |-> [rows |->
        0 :> <<0,0,0,0>> @@ 1 :> <<1,1,1,1>> @@ 2 :> <<1,0,0,0>> @@ 3 :> <<1,0,0,0>> @@ 4 :> <<1,0,0,0>> @@ 5 :> <<1,1,1,1>> @@ 6 :> <<0,0,0,0>>]])
  @@ ("D" :> [unicode |-> 68, glyph |-> [rows |->
        0 :> <<0,0,0,0>> @@ 1 :> <<1,1,1,1>> @@ 2 :> <<1,0,0,1>> @@ 3 :> <<1,0,0,1>> @@ 4 :> <<1,0,0,1>> @@ 5 :> <<1,1,1,1>> @@ 6 :> <<0,0,0,0>>]])
  @@ ("E" :> [unicode |-> 69, glyph |-> [rows |->
        0 :> <<0,0,0,0>> @@ 1 :> <<1,1,1,1>> @@ 2 :> <<1,0,0,0>> @@ 3 :> <<1,1,1,0>> @@ 4 :> <<1,0,0,0>> @@ 5 :> <<1,1,1,1>> @@ 6 :> <<0,0,0,0>>]])
  @@ ("F" :> [unicode |-> 70, glyph |-> [rows |->
        0 :> <<0,0,0,0>> @@ 1 :> <<1,1,1,1>> @@ 2 :> <<1,0,0,0>> @@ 3 :> <<1,1,1,0>> @@ 4 :> <<1,0,0,0>> @@ 5 :> <<1,0,0,0>> @@ 6 :> <<0,0,0,0>>]])
  @@ ("G" :> [unicode |-> 71, glyph |-> [rows |->
        0 :> <<0,0,0,0>> @@ 1 :> <<1,1,1,1>> @@ 2 :> <<1,0,0,0>> @@ 3 :> <<1,0,1,1>> @@ 4 :> <<1,0,0,1>> @@ 5 :> <<1,1,1,1>> @@ 6 :> <<0,0,0,0>>]])
  @@ ("H" :> [unicode |-> 72, glyph |-> [rows |->
        0 :> <<0,0,0,0>> @@ 1 :> <<1,0,0,1>> @@ 2 :> <<1,0,0,1>> @@ 3 :> <<1,1,1,1>> @@ 4 :> <<1,0,0,1>> @@ 5 :> <<1,0,0,1>> @@ 6 :> <<0,0,0,0>>]])
  @@ ("I" :> [unicode |-> 73, glyph |-> [rows |->
        0 :> <<0,0,0,0>> @@ 1 :> <<1,1,1,1>> @@ 2 :> <<0,1,1,0>> @@ 3 :> <<0,1,1,0>> @@ 4 :> <<0,1,1,0>> @@ 5 :> <<1,1,1,1>> @@ 6 :> <<0,0,0,0>>]])
  @@ ("J" :> [unicode |-> 74, glyph |-> [rows |->
        0 :> <<0,0,0,0>> @@ 1 :> <<0,1,1,1>> @@ 2 :> <<0,0,1,0>> @@ 3 :> <<0,0,1,0>> @@ 4 :> <<1,0,1,0>> @@ 5 :> <<1,1,1,0>> @@ 6 :> <<0,0,0,0>>]])
  @@ ("K" :> [unicode |-> 75, glyph |-> [rows |->
        0 :> <<0,0,0,0>> @@ 1 :> <<1,0,0,1>> @@ 2 :> <<1,0,1,0>> @@ 3 :> <<1,1,0,0>> @@ 4 :> <<1,0,1,0>> @@ 5 :> <<1,0,0,1>> @@ 6 :> <<0,0,0,0>>]])
  @@ ("L" :> [unicode |-> 76, glyph |-> [rows |->
        0 :> <<0,0,0,0>> @@ 1 :> <<1,0,0,0>> @@ 2 :> <<1,0,0,0>> @@ 3 :> <<1,0,0,0>> @@ 4 :> <<1,0,0,0>> @@ 5 :> <<1,1,1,1>> @@ 6 :> <<0,0,0,0>>]])
  @@ ("M" :> [unicode |-> 77, glyph |-> [rows |->
        0 :> <<0,0,0,0>> @@ 1 :> <<1,0,0,1>> @@ 2 :> <<1,1,1,1>> @@ 3 :> <<1,0,0,1>> @@ 4 :> <<1,0,0,1>> @@ 5 :> <<1,0,0,1>> @@ 6 :> <<0,0,0,0>>]])
  @@ ("N" :> [unicode |-> 78, glyph |-> [rows |->
        0 :> <<0,0,0,0>> @@ 1 :> <<1,0,0,1>> @@ 2 :> <<1,1,0,1>> @@ 3 :> <<1,0,1,1>> @@ 4 :> <<1,0,0,1>> @@ 5 :> <<1,0,0,1>> @@ 6 :> <<0,0,0,0>>]])
  @@ ("O" :> [unicode |-> 79, glyph |-> [rows |->
        0 :> <<0,0,0,0>> @@ 1 :> <<1,1,1,1>> @@ 2 :> <<1,0,0,1>> @@ 3 :> <<1,0,0,1>> @@ 4 :> <<1,0,0,1>> @@ 5 :> <<1,1,1,1>> @@ 6 :> <<0,0,0,0>>]])
  @@ ("P" :> [unicode |-> 80, glyph |-> [rows |->
        0 :> <<0,0,0,0>> @@ 1 :> <<1,1,1,1>> @@ 2 :> <<1,0,0,1>> @@ 3 :> <<1,1,1,1>> @@ 4 :> <<1,0,0,0>> @@ 5 :> <<1,0,0,0>> @@ 6 :> <<0,0,0,0>>]])
  @@ ("Q" :> [unicode |-> 81, glyph |-> [rows |->
        0 :> <<0,0,0,0>> @@ 1 :> <<1,1,1,1>> @@ 2 :> <<1,0,0,1>> @@ 3 :> <<1,0,0,1>> @@ 4 :> <<1,0,1,0>> @@ 5 :> <<1,1,0,1>> @@ 6 :> <<0,0,0,0>>]])
  @@ ("R" :> [unicode |-> 82, glyph |-> [rows |->
        0 :> <<0,0,0,0>> @@ 1 :> <<1,1,1,1>> @@ 2 :> <<1,0,0,1>> @@ 3 :> <<1,1,1,1>> @@ 4 :> <<1,0,1,0>> @@ 5 :> <<1,0,0,1>> @@ 6 :> <<0,0,0,0>>]])
  @@ ("S" :> [unicode |-> 83, glyph |-> [rows |->
        0 :> <<0,0,0,0>> @@ 1 :> <<1,1,1,1>> @@ 2 :> <<1,0,0,0>> @@ 3 :> <<1,1,1,1>> @@ 4 :> <<0,0,0,1>> @@ 5 :> <<1,1,1,1>> @@ 6 :> <<0,0,0,0>>]])
  @@ ("T" :> [unicode |-> 84, glyph |-> [rows |->
        0 :> <<0,0,0,0>> @@ 1 :> <<1,1,1,1>> @@ 2 :> <<0,1,1,0>> @@ 3 :> <<0,1,1,0>> @@ 4 :> <<0,1,1,0>> @@ 5 :> <<0,1,1,0>> @@ 6 :> <<0,0,0,0>>]])
  @@ ("U" :> [unicode |-> 85, glyph |-> [rows |->
        0 :> <<0,0,0,0>> @@ 1 :> <<1,0,0,1>> @@ 2 :> <<1,0,0,1>> @@ 3 :> <<1,0,0,1>> @@ 4 :> <<1,0,0,1>> @@ 5 :> <<1,1,1,1>> @@ 6 :> <<0,0,0,0>>]])
  @@ ("V" :> [unicode |-> 86, glyph |-> [rows |->
        0 :> <<0,0,0,0>> @@ 1 :> <<1,0,0,1>> @@ 2 :> <<1,0,0,1>> @@ 3 :> <<1,0,0,1>> @@ 4 :> <<1,0,0,1>> @@ 5 :> <<0,1,1,0>> @@ 6 :> <<0,0,0,0>>]])
  @@ ("W" :> [unicode |-> 87, glyph |-> [rows |->
        0 :> <<0,0,0,0>> @@ 1 :> <<1,0,0,1>> @@ 2 :> <<1,0,0,1>> @@ 3 :> <<1,0,0,1>> @@ 4 :> <<1,1,1,1>> @@ 5 :> <<1,0,0,1>> @@ 6 :> <<0,0,0,0>>]])
  @@ ("X" :> [unicode |-> 88, glyph |-> [rows |->
        0 :> <<0,0,0,0>> @@ 1 :> <<1,0,0,1>> @@ 2 :> <<0,1,1,0>> @@ 3 :> <<0,1,1,0>> @@ 4 :> <<0,1,1,0>> @@ 5 :> <<1,0,0,1>> @@ 6 :> <<0,0,0,0>>]])
  @@ ("Y" :> [unicode |-> 89, glyph |-> [rows |->
        0 :> <<0,0,0,0>> @@ 1 :> <<1,0,0,1>> @@ 2 :> <<1,0,0,1>> @@ 3 :> <<0,1,1,0>> @@ 4 :> <<0,1,1,0>> @@ 5 :> <<0,1,1,0>> @@ 6 :> <<0,0,0,0>>]])
  @@ ("Z" :> [unicode |-> 90, glyph |-> [rows |->
        0 :> <<0,0,0,0>> @@ 1 :> <<1,1,1,1>> @@ 2 :> <<0,0,1,0>> @@ 3 :> <<0,1,0,0>> @@ 4 :> <<1,0,0,0>> @@ 5 :> <<1,1,1,1>> @@ 6 :> <<0,0,0,0>>]])

SymbolGlyphs ==
  ("-" :> [unicode |-> 45, glyph |-> [rows |->
        0 :> <<0,0,0,0>> @@ 1 :> <<0,0,0,0>> @@ 2 :> <<0,0,0,0>> @@ 3 :> <<1,1,1,1>> @@ 4 :> <<0,0,0,0>> @@ 5 :> <<0,0,0,0>> @@ 6 :> <<0,0,0,0>>]])
  @@ ("|" :> [unicode |-> 124, glyph |-> [rows |->
        0 :> <<0,0,0,0>> @@ 1 :> <<0,1,1,0>> @@ 2 :> <<0,1,1,0>> @@ 3 :> <<0,1,1,0>> @@ 4 :> <<0,1,1,0>> @@ 5 :> <<0,1,1,0>> @@ 6 :> <<0,0,0,0>>]])
  @@ ("'" :> [unicode |-> 39, glyph |-> [rows |->
        0 :> <<0,0,0,0>> @@ 1 :> <<0,1,0,0>> @@ 2 :> <<0,1,0,0>> @@ 3 :> <<0,0,0,0>> @@ 4 :> <<0,0,0,0>> @@ 5 :> <<0,0,0,0>> @@ 6 :> <<0,0,0,0>>]])
  @@ ("\"" :> [unicode |-> 34, glyph |-> [rows |->
        0 :> <<0,0,0,0>> @@ 1 :> <<1,0,1,0>> @@ 2 :> <<1,0,1,0>> @@ 3 :> <<0,0,0,0>> @@ 4 :> <<0,0,0,0>> @@ 5 :> <<0,0,0,0>> @@ 6 :> <<0,0,0,0>>]])
  @@ ("?" :> [unicode |-> 63, glyph |-> [rows |->
        0 :> <<0,0,0,0>> @@ 1 :> <<1,1,1,1>> @@ 2 :> <<0,0,0,1>> @@ 3 :> <<0,1,1,0>> @@ 4 :> <<0,0,0,0>> @@ 5 :> <<0,1,1,0>> @@ 6 :> <<0,0,0,0>>]])
  @@ ("!" :> [unicode |-> 33, glyph |-> [rows |->
        0 :> <<0,0,0,0>> @@ 1 :> <<0,1,1,0>> @@ 2 :> <<0,1,1,0>> @@ 3 :> <<0,1,1,0>> @@ 4 :> <<0,0,0,0>> @@ 5 :> <<0,1,1,0>> @@ 6 :> <<0,0,0,0>>]])

\* C9 mutant: the table lost its last entry
GLYPHS_dropEntry ==
  LetterGlyphs @@ [c \in DOMAIN SymbolGlyphs \ {"!"} |-> SymbolGlyphs[c]]

\* C10 mutant: a row of the hyphen glyph was typed with three cells
GLYPHS_shortRow ==
  LetterGlyphs @@
  [c \in DOMAIN SymbolGlyphs |->
     IF c = "-"
       THEN [unicode |-> 45, glyph |-> [rows |->
               [r \in 0..6 |-> IF r = 3 THEN <<1,1,1>> ELSE <<0,0,0,0>>]]]
       ELSE SymbolGlyphs[c]]

\* C23 mutant: the apostrophe glyph has no filled cell
GLYPHS_blankGlyph ==
  LetterGlyphs @@
  [c \in DOMAIN SymbolGlyphs |->
     IF c = "'"
       THEN [unicode |-> 39, glyph |-> [rows |-> [r \in 0..6 |-> <<0,0,0,0>>]]]
       ELSE SymbolGlyphs[c]]

GLYPHS == LetterGlyphs @@ SymbolGlyphs

\* Object.entries(GLYPHS) enumerates the keys in insertion order
SourceKeyOrder ==
  <<"A", "B", "C", "D", "E", "F", "G", "H", "I", "J", "K", "L", "M", "N", "O", "P", "Q", "R", "S", "T", "U", "V", "W", "X", "Y", "Z", "-", "|", "'", "\"", "?", "!">>
GlyphOrder == SelectSeq(SourceKeyOrder, LAMBDA c : c \in DOMAIN GLYPHS)

\* ------------------------------------------------------------------------
\* generate-fonts.ts : gridToSVGPath
\* A sub-path "M x,y L x+s,y L x+s,y+s L x,y+s Z" is the tuple of its four
\* points; the joined path string is the sequence of its sub-paths.
\* ------------------------------------------------------------------------
\* C12 mutant: x taken from the row and y from the column
cellPath_transposed(row, col) ==
  LET blockSize == CONFIG.blockSize
      x == row * blockSize
      y == col * blockSize
  IN  << <<x, y>>, <<x + blockSize, y>>,
         <<x + blockSize, y + blockSize>>, <<x, y + blockSize>> >>

cellPath(row, col) ==
  LET blockSize == CONFIG.blockSize
      x == col * blockSize
      y == row * blockSize
  IN  << <<x, y>>, <<x + blockSize, y>>,
         <<x + blockSize, y + blockSize>>, <<x, y + blockSize>> >>

\* C13 mutant: the cells of a row are emitted from the last column down
RECURSIVE rowPaths_descending(_, _, _)
rowPaths_descending(columns, row, col) ==
  IF col < Len(columns)
    THEN rowPaths_descending(columns, row, col + 1)
         \o (IF columns[col + 1] = 1 THEN <<cellPath(row, col)>> ELSE << >>)
    ELSE << >>

RECURSIVE rowPaths(_, _, _)
rowPaths(columns, row, col) ==
  IF col < Len(columns)
    THEN (IF columns[col + 1] = 1 THEN <<cellPath(row, col)>> ELSE << >>)
         \o rowPaths(columns, row, col + 1)
    ELSE << >>

\* C14 mutant: the row loop ends at the first row that is not defined
RECURSIVE gridRows_stopAtMissing(_, _)
gridRows_stopAtMissing(rows, row) ==
  IF row < 7 /\ row \in DOMAIN rows
    THEN rowPaths(rows[row], row, 0) \o gridRows_stopAtMissing(rows, row + 1)
    ELSE << >>

RECURSIVE gridRows(_, _)
gridRows(rows, row) ==
  IF row < 7
    THEN rowPaths(IF row \in DOMAIN rows THEN rows[row] ELSE <<0, 0, 0, 0>>,
                  row, 0)
         \o gridRows(rows, row + 1)
    ELSE << >>

gridToSVGPath(rows) == gridRows(rows, 0)

\* the standalone SVG document generateGlyphSVGs writes for one glyph
GlyphSVG(char) ==
  [width  |-> 4 * CONFIG.blockSize,
   height |-> 7 * CONFIG.blockSize,
   d      |-> gridToSVGPath(GLYPHS[char].glyph.rows)]

\* names of the three final files, in the order saveFonts writes them
SaveOrder == <<"OpenCodeLogo.ttf", "OpenCodeLogo.woff2", "OpenCodeLogo.woff">>
FinalFiles == {SaveOrder[i] : i \in 1..Len(SaveOrder)}

\* ------------------------------------------------------------------------
\* State
\* ------------------------------------------------------------------------
VARIABLES
  \* --- generation pipeline (one process) ---
  pc,            \* position of main()
  run,           \* number of this invocation (earlier ones left files numbered 0)
  outDirExists,  \* fonts/ exists
  tempDirExists, \* fonts/.temp-glyphs exists
  tempFiles,     \* files of fonts/.temp-glyphs : char |-> content
  outFiles,      \* files of fonts/ : file name |-> content
  fontStream,    \* glyphs written to the SVG font stream (None: no stream)
  svgFont,       \* main's local svgFont      (None until assigned)
  ttfBuffer,     \* main's local ttfBuffer
  woff2Buffer,   \* main's local woff2Buffer
  woffBuffer,    \* main's local woffBuffer
  stagesDone,    \* stages completed by this run, in order
  failedStage,   \* stage that threw in this run (None if none)
  cleanupCalls,  \* calls of cleanup() in this run
  exitCode,      \* exit code of the process (None while running)
  \* --- validate-fonts.sh ---
  vpc,           \* position of the script
  vfiles,        \* the three files under fonts/ as the script finds them
  vtools,        \* availability of the `file` and `xxd` commands
  vout,          \* lines printed so far (message tags)
  vexit,         \* exit code (None while running)
  \* --- convertTextToSVG ---
  cText,         \* argument text of the call
  cOptions,      \* argument options of the call
  cResult,       \* None, or Some(returned string) once the call returned
  \* --- gridToSVGPath called on its own ---
  gGrid,         \* argument rows: row index |-> cells
  gPath,         \* None, or Some(returned path) once the call returned
  \* --- blockyTextToSVG ---
  bText,         \* argument text of the call
  bOptions,      \* argument options of the call
  bGlyphs,       \* the variable-width glyph table of the alphabet module
  bRowRoles,     \* the row -> PRIMARY/SECONDARY lookup of the alphabet module
  bBlocks,       \* None, or Some(layout computed by textToBlocks)
  bSvg           \* None, or Some(returned document) once the call returned

genVars == <<pc, run, outDirExists, tempDirExists, tempFiles, outFiles,
             fontStream, svgFont, ttfBuffer, woff2Buffer, woffBuffer, stagesDone,
             failedStage, cleanupCalls, exitCode>>
valVars == <<vpc, vfiles, vtools, vout, vexit>>
convVars == <<cText, cOptions, cResult>>
gridVars == <<gGrid, gPath>>
blockVars == <<bText, bOptions, bGlyphs, bRowRoles, bBlocks, bSvg>>
pureVars == <<gridVars, blockVars>>
vars == <<genVars, valVars, convVars, pureVars>>

EmptyDir == << >>

\* ------------------------------------------------------------------------
\* generate-fonts.ts : the stages
\* ------------------------------------------------------------------------
\* an exception leaves a stage of main's try block: the catch block is next
Throw(stage) ==
  /\ failedStage' = Some(stage)
  /\ pc' = "catch"

\* C17 mutant: a glyph file that is already there is not written again
glyphWrites_keepExisting(upTo) ==
  [c \in DOMAIN tempFiles \cup {GlyphOrder[i] : i \in 1..upTo} |->
     IF c \in DOMAIN tempFiles
       THEN tempFiles[c]
       ELSE [run |-> run, svg |-> GlyphSVG(c)]]

\* generateGlyphSVGs, run to completion: creates the temp directory if
\* needed and writes one SVG file per entry of GLYPHS.
glyphWrites(upTo) ==
  [c \in DOMAIN tempFiles \cup {GlyphOrder[i] : i \in 1..upTo} |->
     IF \E i \in 1..upTo : GlyphOrder[i] = c
       THEN [run |-> run, svg |-> GlyphSVG(c)]
       ELSE tempFiles[c]]

\* the module was loaded and its guard holds (the script is the file the
\* runtime was started with): main() is called
entry_main ==
  /\ pc = "entry"
  /\ pc' = "generateGlyphSVGs"
  /\ UNCHANGED <<run, outDirExists, tempDirExists, tempFiles, outFiles,
                 fontStream, svgFont, ttfBuffer, woff2Buffer, woffBuffer,
                 stagesDone, failedStage, cleanupCalls, exitCode>>

\* the guard fails (process.argv[1] differs from the path in import.meta.url:
\* the module was imported, or started through a symbolic link or a path the
\* URL encodes differently): main() is not called and the process ends
entry_skip ==
  /\ pc = "entry"
  /\ exitCode' = Some(0)
  /\ pc' = "exited"
  /\ UNCHANGED <<run, outDirExists, tempDirExists, tempFiles, outFiles,
                 fontStream, svgFont, ttfBuffer, woff2Buffer, woffBuffer,
                 stagesDone, failedStage, cleanupCalls>>

generateGlyphSVGs ==
  /\ pc = "generateGlyphSVGs"
  /\ tempDirExists' = TRUE
  /\ outDirExists' = TRUE
  /\ tempFiles' = glyphWrites(Len(GlyphOrder))
  /\ stagesDone' = Append(stagesDone, "generateGlyphSVGs")
  /\ pc' = "generateSVGFont"
  /\ UNCHANGED <<run, outFiles, fontStream, svgFont, ttfBuffer, woff2Buffer, woffBuffer,
                 failedStage, cleanupCalls, exitCode>>

\* what a writeFileSync that fails while writing the data leaves of its
\* target: the file was created or truncated by the open, and holds no
\* complete document
TruncatedGlyph ==
  [run |-> run, svg |-> [width |-> 0, height |-> 0, d |-> << >>]]
truncateGlyph(files, c) ==
  [x \in DOMAIN files \cup {c} |-> IF x = c THEN TruncatedGlyph ELSE files[x]]

\* the file system after generateGlyphSVGs failed at step k.  k = 0:
\* existsSync(tempDir) was false (no directory, or one the process cannot
\* stat) and mkdirSync throws, having created nothing or (recursive) fonts/
\* alone.
\* k >= 1: the k-th writeFileSync throws after k-1 files were written, at
\* the open (target untouched) or at the data write (target truncated).
glyphFailure(k) ==
  IF k = 0
    THEN /\ tempDirExists' = tempDirExists
         /\ outDirExists' \in {outDirExists, TRUE}
         /\ tempFiles' = tempFiles
    ELSE /\ tempDirExists' = TRUE
         /\ outDirExists' = TRUE
         /\ tempFiles' \in {glyphWrites(k - 1),
                            truncateGlyph(glyphWrites(k - 1), GlyphOrder[k])}

\* generateGlyphSVGs throws: mkdirSync fails (k = 0) or the k-th
\* writeFileSync fails.
generateGlyphSVGs_throw ==
  /\ pc = "generateGlyphSVGs"
  /\ Throw("generateGlyphSVGs")
  /\ \E k \in 0..Len(GlyphOrder) : glyphFailure(k)
  /\ UNCHANGED <<run, outFiles, fontStream, svgFont, ttfBuffer, woff2Buffer, woffBuffer,
                 stagesDone, cleanupCalls, exitCode>>

\* C11 mutant: every glyph is registered under the code point of the first
generateSVGFont_fixedCode ==
  /\ pc = "generateSVGFont"
  /\ \A i \in 1..Len(GlyphOrder) : GlyphOrder[i] \in DOMAIN tempFiles
  /\ fontStream' =
       Some([i \in 1..Len(GlyphOrder) |->
               [unicode |-> GLYPHS[GlyphOrder[1]].unicode,
                name    |-> GlyphOrder[i],
                data    |-> tempFiles[GlyphOrder[i]]]])
  /\ pc' = "awaitSVGFont"
  /\ UNCHANGED <<run, outDirExists, tempDirExists, tempFiles, outFiles,
                 svgFont, ttfBuffer, woff2Buffer, woffBuffer, stagesDone,
                 failedStage, cleanupCalls, exitCode>>

\* generateSVGFont, the synchronous part of the promise executor: every
\* glyph file is read back and written to the font stream with its metadata,
\* then the stream is ended.  main awaits the promise.
generateSVGFont ==
  /\ pc = "generateSVGFont"
  /\ \A i \in 1..Len(GlyphOrder) : GlyphOrder[i] \in DOMAIN tempFiles
  /\ fontStream' =
       Some([i \in 1..Len(GlyphOrder) |->
               [unicode |-> GLYPHS[GlyphOrder[i]].unicode,
                name    |-> GlyphOrder[i],
                data    |-> tempFiles[GlyphOrder[i]]]])
  /\ pc' = "awaitSVGFont"
  /\ UNCHANGED <<run, outDirExists, tempDirExists, tempFiles, outFiles,
                 svgFont, ttfBuffer, woff2Buffer, woffBuffer, stagesDone,
                 failedStage, cleanupCalls, exitCode>>

\* readFileSync throws for the k-th glyph inside the executor, after the
\* stream was created and k-1 glyphs were written to it: the promise rejects
generateSVGFont_throw ==
  /\ pc = "generateSVGFont"
  /\ Throw("generateSVGFont")
  /\ \E k \in 1..Len(GlyphOrder) :
       /\ \A i \in 1..(k - 1) : GlyphOrder[i] \in DOMAIN tempFiles
       /\ fontStream' =
            Some([i \in 1..(k - 1) |->
                    [unicode |-> GLYPHS[GlyphOrder[i]].unicode,
                     name    |-> GlyphOrder[i],
                     data    |-> tempFiles[GlyphOrder[i]]]])
  /\ UNCHANGED <<run, outDirExists, tempDirExists, tempFiles, outFiles,
                 svgFont, ttfBuffer, woff2Buffer, woffBuffer,
                 stagesDone, cleanupCalls, exitCode>>

\* fontStream 'finish': the promise resolves with the accumulated document
fontStream_finish ==
  /\ pc = "awaitSVGFont"
  /\ svgFont' = Some([run |-> run, fontName |-> CONFIG.fontName,
                      fontHeight |-> CONFIG.fontHeight,
                      descent |-> CONFIG.descent,
                      glyphs |-> fontStream[1]])
  /\ stagesDone' = Append(stagesDone, "generateSVGFont")
  /\ pc' = "generateTTF"
  /\ UNCHANGED <<run, outDirExists, tempDirExists, tempFiles, outFiles,
                 fontStream, ttfBuffer, woff2Buffer, woffBuffer,
                 failedStage, cleanupCalls, exitCode>>

\* fontStream 'error': the promise rejects
fontStream_error ==
  /\ pc = "awaitSVGFont"
  /\ Throw("generateSVGFont")
  /\ UNCHANGED <<run, outDirExists, tempDirExists, tempFiles, outFiles,
                 fontStream, svgFont, ttfBuffer, woff2Buffer, woffBuffer,
                 stagesDone, cleanupCalls, exitCode>>

\* a transcoded buffer: its format, the format and run of the buffer it was
\* computed from, and the glyphs it carries
Transcode(fmt, input) ==
  [fmt |-> fmt, run |-> input.run, from |-> input.fmt, glyphs |-> input.glyphs]

generateTTF ==
  /\ pc = "generateTTF"
  /\ ttfBuffer' = Some([fmt |-> "ttf", run |-> svgFont[1].run,
                        from |-> "svg", glyphs |-> svgFont[1].glyphs])
  /\ stagesDone' = Append(stagesDone, "generateTTF")
  /\ pc' = "generateWOFF2"
  /\ UNCHANGED <<run, outDirExists, tempDirExists, tempFiles, outFiles,
                 fontStream, svgFont, woff2Buffer, woffBuffer,
                 failedStage, cleanupCalls, exitCode>>

generateWOFF2 ==
  /\ pc = "generateWOFF2"
  /\ woff2Buffer' = Some(Transcode("woff2", ttfBuffer[1]))
  /\ stagesDone' = Append(stagesDone, "generateWOFF2")
  /\ pc' = "generateWOFF"
  /\ UNCHANGED <<run, outDirExists, tempDirExists, tempFiles, outFiles,
                 fontStream, svgFont, ttfBuffer, woffBuffer,
                 failedStage, cleanupCalls, exitCode>>

\* C15 mutant: WOFF is computed from the WOFF2 buffer
generateWOFF_chained ==
  /\ pc = "generateWOFF"
  /\ woffBuffer' = Some(Transcode("woff", woff2Buffer[1]))
  /\ stagesDone' = Append(stagesDone, "generateWOFF")
  /\ pc' = "saveFonts"
  /\ UNCHANGED <<run, outDirExists, tempDirExists, tempFiles, outFiles,
                 fontStream, svgFont, ttfBuffer, woff2Buffer,
                 failedStage, cleanupCalls, exitCode>>

generateWOFF ==
  /\ pc = "generateWOFF"
  /\ woffBuffer' = Some(Transcode("woff", ttfBuffer[1]))
  /\ stagesDone' = Append(stagesDone, "generateWOFF")
  /\ pc' = "saveFonts"
  /\ UNCHANGED <<run, outDirExists, tempDirExists, tempFiles, outFiles,
                 fontStream, svgFont, ttfBuffer, woff2Buffer,
                 failedStage, cleanupCalls, exitCode>>

\* svg2ttf, ttf2woff2 or ttf2woff throws
transcode_throw ==
  /\ pc \in {"generateTTF", "generateWOFF2", "generateWOFF"}
  /\ Throw(pc)
  /\ UNCHANGED <<run, outDirExists, tempDirExists, tempFiles, outFiles,
                 fontStream, svgFont, ttfBuffer, woff2Buffer, woffBuffer,
                 stagesDone, cleanupCalls, exitCode>>

\* the files of fonts/ after the first n writes of saveFonts
savedBuffers == <<ttfBuffer, woff2Buffer, woffBuffer>>
saveWrites(n) ==
  [f \in DOMAIN outFiles \cup {SaveOrder[i] : i \in 1..n} |->
     IF \E i \in 1..n : SaveOrder[i] = f
       THEN savedBuffers[CHOOSE i \in 1..n : SaveOrder[i] = f][1]
       ELSE outFiles[f]]

saveFonts ==
  /\ pc = "saveFonts"
  /\ outDirExists' = TRUE
  /\ outFiles' = saveWrites(Len(SaveOrder))
  /\ stagesDone' = Append(stagesDone, "saveFonts")
  /\ pc' = "cleanup"
  /\ UNCHANGED <<run, tempDirExists, tempFiles, fontStream, svgFont,
                 ttfBuffer, woff2Buffer, woffBuffer, failedStage,
                 cleanupCalls, exitCode>>

\* what a writeFileSync that fails while writing the data leaves of a font
\* file: a truncated file, neither the earlier content nor the buffer
PartialFont(buffer) ==
  [fmt |-> "partial", run |-> buffer.run, from |-> buffer.fmt, glyphs |-> << >>]
truncateFont(files, k) ==
  [f \in DOMAIN files \cup {SaveOrder[k]} |->
     IF f = SaveOrder[k] THEN PartialFont(savedBuffers[k][1]) ELSE files[f]]

\* saveFonts throws.  k = 0: existsSync(outputDir) was false (no directory,
\* or one the process cannot stat) and mkdirSync fails.
\* k >= 1: the k-th writeFileSync throws after k-1 files were written, at
\* the open (target untouched) or at the data write (target truncated).
saveFonts_throw ==
  /\ pc = "saveFonts"
  /\ Throw("saveFonts")
  /\ \E k \in 0..Len(SaveOrder) :
       IF k = 0
         THEN /\ outDirExists' = outDirExists
              /\ outFiles' = outFiles
         ELSE /\ outDirExists' = TRUE
              /\ outFiles' \in {saveWrites(k - 1),
                                truncateFont(saveWrites(k - 1), k)}
  /\ UNCHANGED <<run, tempDirExists, tempFiles, fontStream, svgFont,
                 ttfBuffer, woff2Buffer, woffBuffer, stagesDone,
                 cleanupCalls, exitCode>>

\* cleanup() returns: existsSync(tempDir) was true and rmSync(tempDir,
\* {recursive, force}) removed the directory, or existsSync was false and
\* rmSync was skipped.  existsSync is false when there is no directory and
\* also when the process cannot stat it (fonts/ not searchable): the
\* directory and its files then stay.
cleanup ==
  /\ \/ /\ tempDirExists
        /\ tempDirExists' = FALSE
        /\ tempFiles' = EmptyDir
     \/ UNCHANGED <<tempDirExists, tempFiles>>
  /\ cleanupCalls' = cleanupCalls + 1

\* the order in which rmSync removes the entries of the temp directory:
\* readdirSync lists the names sorted by their bytes (the stale file 0.svg
\* included)
ReaddirOrder ==
  <<"!", "\"", "'", "-", "0", "?",
    "A", "B", "C", "D", "E", "F", "G", "H", "I", "J", "K", "L", "M",
    "N", "O", "P", "Q", "R", "S", "T", "U", "V", "W", "X", "Y", "Z", "|">>

\* what a failing rmSync leaves in the directory: it unlinks the entries in
\* listing order and throws at the first one it cannot remove, so the entries
\* from that one on stay (all of them when the first unlink fails, none when
\* only the rmdir fails)
rmSyncLeftovers ==
  {[c \in {ReaddirOrder[i] : i \in j..Len(ReaddirOrder)} \cap DOMAIN tempFiles
      |-> tempFiles[c]] : j \in 1..(Len(ReaddirOrder) + 1)}

\* cleanup() throws: rmSync fails (force silences ENOENT only) and the
\* directory stays
cleanup_throw ==
  /\ tempDirExists
  /\ tempDirExists' = TRUE
  /\ tempFiles' \in rmSyncLeftovers
  /\ cleanupCalls' = cleanupCalls + 1

\* step 6 of main, then main returns and the process ends with code 0
main_cleanup ==
  /\ pc = "cleanup"
  /\ cleanup
  /\ stagesDone' = Append(stagesDone, "cleanup")
  /\ exitCode' = Some(0)
  /\ pc' = "exited"
  /\ UNCHANGED <<run, outDirExists, outFiles, fontStream, svgFont,
                 ttfBuffer, woff2Buffer, woffBuffer, failedStage>>

\* step 6 throws: it is inside the try block, so the catch block runs
main_cleanup_throw ==
  /\ pc = "cleanup"
  /\ cleanup_throw
  /\ failedStage' = Some("cleanup")
  /\ pc' = "catch"
  /\ UNCHANGED <<run, outDirExists, outFiles, fontStream, svgFont,
                 ttfBuffer, woff2Buffer, woffBuffer, stagesDone, exitCode>>

\* the catch block of main: cleanup(); process.exit(1)
main_catch ==
  /\ pc = "catch"
  /\ cleanup
  /\ exitCode' = Some(1)
  /\ pc' = "exited"
  /\ UNCHANGED <<run, outDirExists, outFiles, fontStream, svgFont,
                 ttfBuffer, woff2Buffer, woffBuffer, stagesDone, failedStage>>

\* cleanup() throws in the catch block: process.exit(1) is not reached, the
\* promise of main() rejects and nothing handles it
main_catch_throw ==
  /\ pc = "catch"
  /\ cleanup_throw
  /\ pc' = "unhandledRejection"
  /\ UNCHANGED <<run, outDirExists, outFiles, fontStream, svgFont,
                 ttfBuffer, woff2Buffer, woffBuffer, stagesDone, failedStage,
                 exitCode>>

\* process.on('unhandledRejection'): cleanup(); process.exit(1)
unhandledRejection ==
  /\ pc = "unhandledRejection"
  /\ cleanup
  /\ exitCode' = Some(1)
  /\ pc' = "exited"
  /\ UNCHANGED <<run, outDirExists, outFiles, fontStream, svgFont,
                 ttfBuffer, woff2Buffer, woffBuffer, stagesDone, failedStage>>

\* cleanup() throws in that handler: the exception is uncaught
unhandledRejection_throw ==
  /\ pc = "unhandledRejection"
  /\ cleanup_throw
  /\ pc' = "uncaughtException"
  /\ UNCHANGED <<run, outDirExists, outFiles, fontStream, svgFont,
                 ttfBuffer, woff2Buffer, woffBuffer, stagesDone, failedStage,
                 exitCode>>

\* process.on('uncaughtException'): cleanup(); process.exit(1)
uncaughtException ==
  /\ pc = "uncaughtException"
  /\ cleanup
  /\ exitCode' = Some(1)
  /\ pc' = "exited"
  /\ UNCHANGED <<run, outDirExists, outFiles, fontStream, svgFont,
                 ttfBuffer, woff2Buffer, woffBuffer, stagesDone, failedStage>>

\* cleanup() throws in the 'uncaughtException' handler itself: the runtime
\* ends the process with exit code 7
uncaughtException_throw ==
  /\ pc = "uncaughtException"
  /\ cleanup_throw
  /\ exitCode' = Some(7)
  /\ pc' = "exited"
  /\ UNCHANGED <<run, outDirExists, outFiles, fontStream, svgFont,
                 ttfBuffer, woff2Buffer, woffBuffer, stagesDone, failedStage>>

\* files a run finds on disk: nothing, or what an earlier invocation left
\* (final files; a temp directory if that process was killed or its cleanup
\* failed, holding glyph files of that time, one of them for a character no
\* longer in the table; after a failed rmSync only the entries from the one
\* it could not remove on)
StaleTemp == [c \in DOMAIN GLYPHS \cup {"0"} |->
                [run |-> 0, svg |-> [width |-> 4 * CONFIG.blockSize,
                                     height |-> 7 * CONFIG.blockSize,
                                     d |-> << >>]]]
StaleLeftover ==
  LET stuck == CHOOSE i \in 1..Len(ReaddirOrder) : ReaddirOrder[i] = "M"
  IN  [c \in {ReaddirOrder[i] : i \in stuck..Len(ReaddirOrder)} |->
         StaleTemp[c]]
StaleOut == [f \in FinalFiles |->
               [fmt |-> "stale", run |-> 0, from |-> "stale", glyphs |-> << >>]]

GenInit ==
  /\ pc = "entry"
  /\ run = 1
  /\ outDirExists \in BOOLEAN
  /\ tempDirExists \in BOOLEAN
  /\ tempDirExists => outDirExists
  /\ tempFiles \in (IF tempDirExists
                      THEN {EmptyDir, StaleTemp, StaleLeftover}
                      ELSE {EmptyDir})
  /\ outFiles \in (IF outDirExists THEN {EmptyDir, StaleOut} ELSE {EmptyDir})
  /\ fontStream = None
  /\ svgFont = None
  /\ ttfBuffer = None
  /\ woff2Buffer = None
  /\ woffBuffer = None
  /\ stagesDone = << >>
  /\ failedStage = None
  /\ cleanupCalls = 0
  /\ exitCode = None

\* ------------------------------------------------------------------------
\* validate-fonts.sh
\* ------------------------------------------------------------------------
MAX_WOFF2_SIZE == 51200
MAX_WOFF_SIZE == 102400
MAX_TTF_SIZE == 204800

FontKinds == {"ttf", "otf", "woff", "woff2", "junk"}

\* keywords that the output of `file` contains for a file of a given kind
\* (the WOFF containers are reported with their flavour)
FileDescription(kind) ==
  CASE kind = "ttf"   -> {"TrueType"}
    [] kind = "otf"   -> {"OpenType"}
    [] kind = "woff"  -> {"Web Open Font Format", "TrueType"}
    [] kind = "woff2" -> {"Web Open Font Format", "TrueType"}
    [] OTHER          -> {}

\* the first four bytes of a file of a given kind, in hexadecimal
MagicBytes(kind) ==
  CASE kind = "woff2" -> <<"77", "4f", "46", "32">>
    [] kind = "woff"  -> <<"77", "4f", "46", "46">>
    [] kind = "ttf"   -> <<"00", "01", "00", "00">>
    [] kind = "otf"   -> <<"4f", "54", "54", "4f">>
    [] OTHER          -> <<"89", "50", "4e", "47">>

\* xxd -p: two hexadecimal digits for each byte it is given
RECURSIVE xxd_p(_)
xxd_p(bytes) ==
  IF bytes = << >> THEN "" ELSE Head(bytes) \o xxd_p(Tail(bytes))

\* `head -c 4 file | xxd -p`: the bytes present, at most four
HeaderHex(f) ==
  xxd_p(SubSeq(MagicBytes(f.kind), 1, IF f.size < 4 THEN f.size ELSE 4))

\* get_file_size
get_file_size(f) == f.size

\* C6 mutant: the per-file block without its emptiness test
CheckFile_noEmptyTest(name, max, next) ==
  LET f == vfiles[name] IN
  /\ vpc = name
  /\ IF ~f.exists
       THEN /\ vout' = Append(vout, <<name, "missing">>)
            /\ vexit' = Some(1)
            /\ vpc' = "exited"
       ELSE IF get_file_size(f) > max
         THEN /\ vout' = Append(vout, <<name, "exceeds limit">>)
              /\ vexit' = Some(1)
              /\ vpc' = "exited"
         ELSE /\ vout' = Append(vout, <<name, "ok">>)
              /\ vexit' = vexit
              /\ vpc' = next
  /\ UNCHANGED <<vfiles, vtools>>

\* one per-file block of the script: existence, size ceiling, emptiness
CheckFile(name, max, next) ==
  LET f == vfiles[name] IN
  /\ vpc = name
  /\ IF ~f.exists
       THEN /\ vout' = Append(vout, <<name, "missing">>)
            /\ vexit' = Some(1)
            /\ vpc' = "exited"
       ELSE IF get_file_size(f) > max
         THEN /\ vout' = Append(vout, <<name, "exceeds limit">>)
              /\ vexit' = Some(1)
              /\ vpc' = "exited"
         ELSE IF get_file_size(f) = 0
           THEN /\ vout' = Append(vout, <<name, "empty">>)
                /\ vexit' = Some(1)
                /\ vpc' = "exited"
           ELSE /\ vout' = Append(vout, <<name, "ok">>)
                /\ vexit' = vexit
                /\ vpc' = next
  /\ UNCHANGED <<vfiles, vtools>>

checkWOFF2 == CheckFile("woff2", MAX_WOFF2_SIZE, "woff")
checkWOFF  == CheckFile("woff", MAX_WOFF_SIZE, "ttf")
checkTTF   == CheckFile("ttf", MAX_TTF_SIZE, "formats")

\* "Verifying file formats...": every outcome only prints
verifyFormats ==
  LET ttf_type   == FileDescription(vfiles["ttf"].kind)
      woff_type  == FileDescription(vfiles["woff"].kind)
      woff2_header == IF vtools.xxd THEN HeaderHex(vfiles["woff2"]) ELSE ""
      fileLines ==
        IF vtools.file
          THEN << IF "TrueType" \notin ttf_type /\ "OpenType" \notin ttf_type
                    THEN <<"ttf", "format warning">>
                    ELSE <<"ttf", "format verified">>,
                  IF "WOFF" \in woff_type \/ "Web Open Font Format" \in woff_type
                    THEN <<"woff", "format verified">>
                    ELSE <<"woff", "format warning">> >>
          ELSE << <<"file", "skipped">> >>
      magicLine ==
        IF woff2_header = "774f4632"
          THEN <<"woff2", "format verified">>
          ELSE IF woff2_header # ""
            THEN <<"woff2", "format warning">>
            ELSE <<"woff2", "format unknown">>
  IN
  /\ vpc = "formats"
  /\ vout' = vout \o fileLines \o <<magicLine>>
  /\ vpc' = "summary"
  /\ UNCHANGED <<vfiles, vtools, vexit>>

\* the summary; the script then ends with the status of its last command
summary ==
  /\ vpc = "summary"
  /\ vout' = vout \o << <<"all", "validated successfully">>,
                        <<"total", (vfiles["woff2"].size + vfiles["woff"].size
                                    + vfiles["ttf"].size) \div 1024>> >>
  /\ vexit' = Some(0)
  /\ vpc' = "exited"
  /\ UNCHANGED <<vfiles, vtools>>

\* the files the validator may find: missing, or of some kind and size
\* (sizes sampled at 0, 1 and around the ceiling; a font container is never
\* smaller than its header)
SizeSamples(max) == {0, 1} \cup ((max - SizeSlack)..(max + SizeSlack))
FileSamples(max) ==
  {[exists |-> FALSE, size |-> 0, kind |-> "junk"]} \cup
  {f \in [exists : {TRUE}, size : SizeSamples(max), kind : FontKinds] :
     f.size < 4 => f.kind = "junk"}

ValInitVars ==
  /\ vpc = "woff2"
  /\ vout = << >>
  /\ vexit = None

ValInit ==
  /\ ValInitVars
  /\ \E w2 \in FileSamples(MAX_WOFF2_SIZE), w \in FileSamples(MAX_WOFF_SIZE),
        t \in FileSamples(MAX_TTF_SIZE) :
       vfiles = [n \in {"woff2", "woff", "ttf"} |->
                   IF n = "woff2" THEN w2 ELSE IF n = "woff" THEN w ELSE t]
  /\ vtools \in [file : BOOLEAN, xxd : BOOLEAN]

\* ------------------------------------------------------------------------
\* src/convertTextToSVG.ts : strings are sequences of characters
\* ------------------------------------------------------------------------
Str_amp ==
  <<"&","a","m","p",";">>
Str_lt ==
  <<"&","l","t",";">>
Str_gt ==
  <<"&","g","t",";">>
Str_quot ==
  <<"&","q","u","o","t",";">>
Str_apos ==
  <<"&","a","p","o","s",";">>
Str_svgOpen ==
  <<"<","s","v","g"," ">>
Str_xmlns ==
  <<"x","m","l","n","s","=","\"","h","t","t","p",":","/","/","w","w",
    "w",".","w","3",".","o","r","g","/","2","0","0","0","/","s","v","g",
    "\"">>
Str_width ==
  <<" ","w","i","d","t","h","=","\"">>
Str_height ==
  <<" ","h","e","i","g","h","t","=","\"">>
Str_role ==
  <<" ","r","o","l","e","=","\"">>
Str_ariaLabel ==
  <<" ","a","r","i","a","-","l","a","b","e","l","=","\"">>
Str_quote ==
  <<"\"">>
Str_viewBox ==
  <<" ","v","i","e","w","B","o","x","=","\"","0"," ","0"," ","1","0",
    "0"," ","2","0","\"">>
Str_textOpen ==
  <<">","\n"," "," ","<","t","e","x","t"," ","x","=","\"","0","\""," ",
    "y","=","\"","1","4","\""," ","f","o","n","t","-","f","a","m","i",
    "l","y","=","\"">>
Str_fontSize ==
  <<"\""," ","f","o","n","t","-","s","i","z","e","=","\"">>
Str_fill ==
  <<"\""," ","f","i","l","l","=","\"">>
Str_textOpenEnd ==
  <<"\"",">">>
Str_close ==
  <<"<","/","t","e","x","t",">","\n","<","/","s","v","g",">">>
Str_OpenCodeLogo ==
  <<"O","p","e","n","C","o","d","e","L","o","g","o">>
Str_000 ==
  <<"#","0","0","0">>

\* template-literal conversion of a non-negative integer
Digits == <<"0", "1", "2", "3", "4", "5", "6", "7", "8", "9">>
RECURSIVE NumberToString(_)
NumberToString(n) ==
  IF n < 10 THEN <<Digits[n + 1]>>
            ELSE NumberToString(n \div 10) \o <<Digits[(n % 10) + 1]>>

\* text argument: null, undefined or a string
Null == [type |-> "null", chars |-> << >>]
Undefined == [type |-> "undefined", chars |-> << >>]
StringValue(s) == [type |-> "string", chars |-> s]

\* C7 mutant: the apostrophe is left out of the character class
escapeChar_noApos(c) ==
  CASE c = "&"  -> Str_amp
    [] c = "<"  -> Str_lt
    [] c = ">"  -> Str_gt
    [] c = "\"" -> Str_quot
    [] OTHER    -> <<c>>

\* the replacer of escapeXml; characters the class does not match are kept
escapeChar(c) ==
  CASE c = "&"  -> Str_amp
    [] c = "<"  -> Str_lt
    [] c = ">"  -> Str_gt
    [] c = "\"" -> Str_quot
    [] c = "'"  -> Str_apos
    [] OTHER    -> <<c>>

RECURSIVE replaceAll(_)
replaceAll(s) ==
  IF s = << >> THEN << >> ELSE escapeChar(Head(s)) \o replaceAll(Tail(s))

escapeXml(unsafe) ==
  IF unsafe.type \in {"null", "undefined"} THEN << >>
  ELSE replaceAll(unsafe.chars)

\* options: every property is None (absent) or Some(value)
DefaultOptions ==
  [fontSize |-> None, color |-> None, fontFamily |-> None, width |-> None,
   height |-> None, includeNamespace |-> None, role |-> None,
   ariaLabel |-> None]

OrDefault(opt, default) == IF opt = None THEN default ELSE opt[1]

\* C28 mutant: a null or undefined text is stringified
convertTextToSVG_stringifyNull(text, options) ==
  LET fontSize   == OrDefault(options.fontSize, 48)
      color      == OrDefault(options.color, Str_000)
      fontFamily == OrDefault(options.fontFamily, Str_OpenCodeLogo)
      width      == options.width
      height     == options.height
      includeNamespace == OrDefault(options.includeNamespace, TRUE)
      role       == options.role
      ariaLabel  == options.ariaLabel
      safeText   == IF text.type = "string" THEN text
                    ELSE IF text.type = "null"
                      THEN StringValue(<<"n", "u", "l", "l">>)
                      ELSE StringValue(<<"u", "n", "d", "e", "f", "i", "n", "e", "d">>)
      ns       == IF includeNamespace THEN Str_xmlns ELSE << >>
      wAttr    == IF width # None /\ width[1] # 0
                    THEN Str_width \o NumberToString(width[1]) \o Str_quote
                    ELSE << >>
      hAttr    == IF height # None /\ height[1] # 0
                    THEN Str_height \o NumberToString(height[1]) \o Str_quote
                    ELSE << >>
      roleAttr == IF role # None /\ role[1] # << >>
                    THEN Str_role \o role[1] \o Str_quote ELSE << >>
      ariaAttr == IF ariaLabel # None /\ ariaLabel[1] # << >>
                    THEN Str_ariaLabel \o ariaLabel[1] \o Str_quote ELSE << >>
  IN  Str_svgOpen \o ns \o wAttr \o hAttr \o Str_viewBox \o roleAttr
      \o ariaAttr \o Str_textOpen \o fontFamily \o Str_fontSize
      \o NumberToString(fontSize) \o Str_fill \o color \o Str_textOpenEnd
      \o escapeXml(safeText) \o Str_close

convertTextToSVG(text, options) ==
  LET fontSize   == OrDefault(options.fontSize, 48)
      color      == OrDefault(options.color, Str_000)
      fontFamily == OrDefault(options.fontFamily, Str_OpenCodeLogo)
      width      == options.width
      height     == options.height
      includeNamespace == OrDefault(options.includeNamespace, TRUE)
      role       == options.role
      ariaLabel  == options.ariaLabel
      safeText   == IF text.type \in {"null", "undefined"}
                      THEN StringValue(<< >>) ELSE text
      ns       == IF includeNamespace THEN Str_xmlns ELSE << >>
      wAttr    == IF width # None /\ width[1] # 0
                    THEN Str_width \o NumberToString(width[1]) \o Str_quote
                    ELSE << >>
      hAttr    == IF height # None /\ height[1] # 0
                    THEN Str_height \o NumberToString(height[1]) \o Str_quote
                    ELSE << >>
      roleAttr == IF role # None /\ role[1] # << >>
                    THEN Str_role \o role[1] \o Str_quote ELSE << >>
      ariaAttr == IF ariaLabel # None /\ ariaLabel[1] # << >>
                    THEN Str_ariaLabel \o ariaLabel[1] \o Str_quote ELSE << >>
  IN  Str_svgOpen \o ns \o wAttr \o hAttr \o Str_viewBox \o roleAttr
      \o ariaAttr \o Str_textOpen \o fontFamily \o Str_fontSize
      \o NumberToString(fontSize) \o Str_fill \o color \o Str_textOpenEnd
      \o escapeXml(safeText) \o Str_close

\* ------------------------------------------------------------------------
\* convertTextToSVG.ts, second half: the JavaScript convertTextToSVG and
\* escapeXml kept in the file
\* ------------------------------------------------------------------------
Str_undefined == <<"u", "n", "d", "e", "f", "i", "n", "e", "d">>
\* the characters the class [&<>"'] matches
escapeClass_js == {"&", "<", ">", "\"", "'"}

\* C27 mutant: the apostrophe becomes a numeric character reference
escapeChar_js_numeric(c) ==
  CASE c = "&"  -> Str_amp
    [] c = "<"  -> Str_lt
    [] c = ">"  -> Str_gt
    [] c = "\"" -> Str_quot
    [] c = "'"  -> <<"&", "#", "3", "9", ";">>
    [] OTHER    -> Str_undefined

\* the replacer: its switch has no default, so it returns undefined, which
\* replace inserts as the string 'undefined', for any other character
escapeChar_js(c) ==
  CASE c = "&"  -> Str_amp
    [] c = "<"  -> Str_lt
    [] c = ">"  -> Str_gt
    [] c = "\"" -> Str_quot
    [] c = "'"  -> Str_apos
    [] OTHER    -> Str_undefined

\* replace calls the replacer on the matches of the class only
RECURSIVE replaceAll_js(_)
replaceAll_js(s) ==
  IF s = << >> THEN << >>
  ELSE (IF Head(s) \in escapeClass_js THEN escapeChar_js(Head(s)) ELSE <<Head(s)>>)
         \o replaceAll_js(Tail(s))

escapeXml_js(unsafe) ==
  IF unsafe.type \in {"null", "undefined"} THEN << >>
  ELSE replaceAll_js(unsafe.chars)

convertTextToSVG_js(text, options) ==
  LET fontSize   == OrDefault(options.fontSize, 48)
      color      == OrDefault(options.color, Str_000)
      fontFamily == OrDefault(options.fontFamily, Str_OpenCodeLogo)
      width      == options.width
      height     == options.height
      includeNamespace == OrDefault(options.includeNamespace, TRUE)
      role       == options.role
      ariaLabel  == options.ariaLabel
      safeText   == IF text.type \in {"null", "undefined"}
                      THEN StringValue(<< >>) ELSE text
      ns       == IF includeNamespace THEN Str_xmlns ELSE << >>
      wAttr    == IF width # None /\ width[1] # 0
                    THEN Str_width \o NumberToString(width[1]) \o Str_quote
                    ELSE << >>
      hAttr    == IF height # None /\ height[1] # 0
                    THEN Str_height \o NumberToString(height[1]) \o Str_quote
                    ELSE << >>
      roleAttr == IF role # None /\ role[1] # << >>
                    THEN Str_role \o role[1] \o Str_quote ELSE << >>
      ariaAttr == IF ariaLabel # None /\ ariaLabel[1] # << >>
                    THEN Str_ariaLabel \o ariaLabel[1] \o Str_quote ELSE << >>
  IN  Str_svgOpen \o ns \o wAttr \o hAttr \o Str_viewBox \o roleAttr
      \o ariaAttr \o Str_textOpen \o fontFamily \o Str_fontSize
      \o NumberToString(fontSize) \o Str_fill \o color \o Str_textOpenEnd
      \o escapeXml_js(safeText) \o Str_close

\* inputs of the calls: texts over an alphabet holding the five special
\* characters, the letters of an entity name and a glyph character
TextAlphabet == {"&", "<", ">", "\"", "'", "l", "t", ";", "A"}
RECURSIVE SeqsUpTo(_, _)
SeqsUpTo(S, n) ==
  IF n = 0 THEN {<< >>}
  ELSE LET shorter == SeqsUpTo(S, n - 1)
       IN  shorter \cup {Append(s, c) : s \in shorter, c \in S}
TextSamples ==
  {Null, Undefined} \cup {StringValue(s) : s \in SeqsUpTo(TextAlphabet, MaxTextLen)}

OptionSamples ==
  { DefaultOptions,
    [DefaultOptions EXCEPT !.includeNamespace = Some(FALSE)],
    [DefaultOptions EXCEPT !.fontSize = Some(72),
                           !.color = Some(<<"#","6","6","7","e","e","a">>),
                           !.width = Some(800), !.height = Some(100)],
    [DefaultOptions EXCEPT !.width = Some(0), !.fontSize = Some(0)],
    [DefaultOptions EXCEPT !.role = Some(<<"i","m","g">>),
                           !.ariaLabel = Some(<<"l","o","g","o">>),
                           !.fontFamily = Some(<<"m","o","n","o">>)],
    [DefaultOptions EXCEPT !.role = Some(<< >>)],
    \* option strings are inserted as they are: values holding the
    \* characters & < > " '
    [DefaultOptions EXCEPT !.ariaLabel = Some(<<"A","&","B">>)],
    [DefaultOptions EXCEPT !.role = Some(<<"<">>)],
    [DefaultOptions EXCEPT !.color = Some(<<"r","\"","d">>)],
    [DefaultOptions EXCEPT !.fontFamily = Some(<<"a","<","b">>)],
    [DefaultOptions EXCEPT !.ariaLabel = Some(<<"A",">","B">>),
                           !.fontFamily = Some(<<"A","'","B">>)] }

ConvIdle ==
  /\ cText = Undefined
  /\ cOptions = DefaultOptions
  /\ cResult = None

\* the arguments of the call are drawn when the caller is set up
ConvInit ==
  /\ cText \in TextSamples
  /\ cOptions \in OptionSamples
  /\ cResult = None

\* the call convertTextToSVG(text, options) returns
callConvertTextToSVG ==
  /\ cResult = None
  /\ cResult' = Some(convertTextToSVG(cText, cOptions))
  /\ UNCHANGED <<cText, cOptions>>

\* ------------------------------------------------------------------------
\* generate-fonts.ts : gridToSVGPath called on a grid of its own
\* ------------------------------------------------------------------------
RowPatterns == [1..4 -> {0, 1}]
\* grids with at most MaxDefinedRows of the rows 0..6 defined, and the grids
\* of the Glyph Table
PartialGrids ==
  UNION {[D -> RowPatterns] :
           D \in {S \in SUBSET (0..6) : Cardinality(S) <= MaxDefinedRows}}
GridSamples == PartialGrids \cup {GLYPHS[c].glyph.rows : c \in DOMAIN GLYPHS}

GridIdle ==
  /\ gGrid = << >>
  /\ gPath = None

GridInit ==
  /\ gGrid \in GridSamples
  /\ gPath = None

\* the call gridToSVGPath(rows) returns
callGridToSVGPath ==
  /\ gPath = None
  /\ gPath' = Some(gridToSVGPath(gGrid))
  /\ UNCHANGED gGrid

\* ------------------------------------------------------------------------
\* Blocky rendering (alphabet module: Block Layout Engine, Path Optimizer,
\* blockyTextToSVG), after sections 3, 4.2, 4.3 and 6 of the specification
\* ------------------------------------------------------------------------
GLYPH_ROWS == 7
BlockDefaults ==
  [theme |-> "dark", blockSize |-> 6, charSpacing |-> 1, optimize |-> TRUE]
blockOptions(options) ==
  [theme       |-> OrDefault(options.theme, BlockDefaults.theme),
   blockSize   |-> OrDefault(options.blockSize, BlockDefaults.blockSize),
   charSpacing |-> OrDefault(options.charSpacing, BlockDefaults.charSpacing),
   optimize    |-> OrDefault(options.optimize, BlockDefaults.optimize)]

\* fill colour of a row: the theme's colour for the role that the fixed
\* row lookup assigns to the row
rowColor(theme, row, roles) ==
  [theme |-> theme, role |-> roles[row]]

\* filled cells of a variable-width glyph, row-major
filledCells(glyph) ==
  LET cellAt(k) == [row |-> (k - 1) \div glyph.width,
                    col |-> (k - 1) % glyph.width]
      filled(k) == glyph.rows[cellAt(k).row][cellAt(k).col + 1] = 1
      ks == SelectSeq([k \in 1..GLYPH_ROWS * glyph.width |-> k], filled)
  IN  [j \in 1..Len(ks) |-> cellAt(ks[j])]

\* C21 mutant: the light theme draws its blocks one block lower
cellBlock_themeOffset(cursor, cell, o, roles) ==
  [x      |-> cursor + cell.col * o.blockSize,
   y      |-> (cell.row + IF o.theme = "light" THEN 1 ELSE 0) * o.blockSize,
   width  |-> o.blockSize,
   height |-> o.blockSize,
   fill   |-> rowColor(o.theme, cell.row, roles)]

\* the Block of one filled cell of a glyph placed at cursor
cellBlock(cursor, cell, o, roles) ==
  [x      |-> cursor + cell.col * o.blockSize,
   y      |-> cell.row * o.blockSize,
   width  |-> o.blockSize,
   height |-> o.blockSize,
   fill   |-> rowColor(o.theme, cell.row, roles)]

glyphBlocks(glyph, cursor, o, roles) ==
  LET cells == filledCells(glyph)
  IN  [i \in 1..Len(cells) |-> cellBlock(cursor, cells[i], o, roles)]

\* C18 mutant: an unsupported character leaves a one-column placeholder gap
advance_placeholder(char, o, glyphs) ==
  IF char \in DOMAIN glyphs
    THEN (glyphs[char].width + o.charSpacing) * o.blockSize
    ELSE (1 + o.charSpacing) * o.blockSize

\* C20 mutant: the gap after a character is one block whatever charSpacing is
advance_fixedGap(char, o, glyphs) ==
  IF char \in DOMAIN glyphs
    THEN (glyphs[char].width + 1) * o.blockSize
    ELSE 0

\* how far the cursor moves over one character of the text
advance(char, o, glyphs) ==
  IF char \in DOMAIN glyphs
    THEN (glyphs[char].width + o.charSpacing) * o.blockSize
    ELSE 0

\* the layout loop from character i on, the cursor being at cursor
RECURSIVE layoutFrom(_, _, _, _, _, _)
layoutFrom(text, i, cursor, o, glyphs, roles) ==
  IF i > Len(text) THEN [chars |-> << >>, width |-> cursor]
  ELSE LET rest == layoutFrom(text, i + 1,
                              cursor + advance(text[i], o, glyphs), o, glyphs,
                              roles)
       IN  IF text[i] \in DOMAIN glyphs
             THEN [chars |-> <<[char   |-> text[i],
                                x      |-> cursor,
                                cols   |-> glyphs[text[i]].width,
                                blocks |-> glyphBlocks(glyphs[text[i]], cursor, o,
                                                      roles)]>>
                              \o rest.chars,
                   width |-> rest.width]
             ELSE rest

\* C22 mutant: the bounding box ends at the last glyph, without the spacing
\* that follows it
textToBlocks_trimmed(text, options, glyphs, roles) ==
  LET o == blockOptions(options)
      l == layoutFrom(text, 1, 0, o, glyphs, roles)
  IN  [chars  |-> l.chars,
       width  |-> IF l.chars = << >> THEN 0
                  ELSE l.width - o.charSpacing * o.blockSize,
       height |-> GLYPH_ROWS * o.blockSize]

\* layout(text, options): the placed characters with their Blocks, and the
\* composite bounding box (cursor, 7 * blockSize)
textToBlocks(text, options, glyphs, roles) ==
  LET o == blockOptions(options)
      l == layoutFrom(text, 1, 0, o, glyphs, roles)
  IN  [chars  |-> l.chars,
       width  |-> l.width,
       height |-> GLYPH_ROWS * o.blockSize]

\* Path Optimizer: edge-adjacent rectangles of one character. Rectangles of
\* different fill are never merged: the optimization must not change the
\* rendered result.
\* same row, touching columns: b continues a to the right
touchingColumns(a, b) ==
  /\ a.fill = b.fill
  /\ a.y = b.y
  /\ a.height = b.height
  /\ a.x + a.width = b.x
\* same column, touching rows: b continues a downwards
touchingRows(a, b) ==
  /\ a.fill = b.fill
  /\ a.x = b.x
  /\ a.width = b.width
  /\ a.y + a.height = b.y

\* C19 mutant: the merged rectangle is not enlarged
mergeRun_keepFirst(first, last) == first

\* the rectangle that replaces a run of touching rectangles first..last
mergeRun(first, last) ==
  [first EXCEPT !.width  = last.x + last.width - first.x,
                !.height = last.y + last.height - first.y]

\* first pass: every maximal run of rectangles with touching columns (they
\* follow each other in the row-major list) becomes one rectangle
mergeColumns(blocks) ==
  LET n == Len(blocks)
      startsRun(i) == i = 1 \/ ~touchingColumns(blocks[i - 1], blocks[i])
      endOfRun(i) ==
        CHOOSE e \in i..n :
          /\ \A k \in i + 1..e : ~startsRun(k)
          /\ e = n \/ startsRun(e + 1)
      starts == SelectSeq([i \in 1..n |-> i], startsRun)
  IN  [j \in 1..Len(starts) |->
         mergeRun(blocks[starts[j]], blocks[endOfRun(starts[j])])]

\* the last rectangle of the chain of touching rows that goes down from
\* blocks[i]
RECURSIVE bottomOf(_, _)
bottomOf(blocks, i) ==
  IF \E k \in 1..Len(blocks) : touchingRows(blocks[i], blocks[k])
    THEN bottomOf(blocks,
                  CHOOSE k \in 1..Len(blocks) : touchingRows(blocks[i], blocks[k]))
    ELSE i

\* second pass: every maximal chain of rectangles with touching rows becomes
\* one rectangle, placed where the chain starts
mergeRows(blocks) ==
  LET n == Len(blocks)
      startsChain(i) == \A k \in 1..n : ~touchingRows(blocks[k], blocks[i])
      starts == SelectSeq([i \in 1..n |-> i], startsChain)
  IN  [j \in 1..Len(starts) |->
         mergeRun(blocks[starts[j]], blocks[bottomOf(blocks, starts[j])])]

\* merge what touches: columns within each row first, then rows
optimizeBlocks(blocks) == mergeRows(mergeColumns(blocks))

\* the rectangles of the document: per character, merged if optimize is set
RECURSIVE documentPaths(_, _, _)
documentPaths(chars, i, optimize) ==
  IF i > Len(chars) THEN << >>
  ELSE (IF optimize THEN optimizeBlocks(chars[i].blocks) ELSE chars[i].blocks)
         \o documentPaths(chars, i + 1, optimize)

\* the SVG document serialized from a layout: its size and one path per
\* rectangle
serialize(layout, optimize) ==
  [width  |-> layout.width,
   height |-> layout.height,
   paths  |-> documentPaths(layout.chars, 1, optimize)]

blockyTextToSVG(text, options, glyphs, roles) ==
  serialize(textToBlocks(text, options, glyphs, roles),
            blockOptions(options).optimize)

\* glyph shapes of the variable-width table: 1, 3 and 5 columns
BarShape ==
  [width |-> 1, rows |-> [r \in 0..6 |-> <<1>>]]
DashShape ==
  [width |-> 3, rows |-> [r \in 0..6 |-> IF r = 3 THEN <<1, 1, 1>> ELSE <<0, 0, 0>>]]
WideShape ==
  [width |-> 5,
   rows  |-> [r \in 0..6 |-> IF r = 0 THEN <<1, 1, 0, 1, 1>> ELSE <<1, 0, 0, 0, 1>>]]
RenderShapes == {BarShape, DashShape, WideShape}
\* row lookups: PRIMARY and SECONDARY alternate row by row, or in bands of
\* two rows
AlternatingRows ==
  [r \in 0..GLYPH_ROWS - 1 |-> IF r % 2 = 0 THEN "PRIMARY" ELSE "SECONDARY"]
BandedRows ==
  [r \in 0..GLYPH_ROWS - 1 |->
     IF (r \div 2) % 2 = 0 THEN "PRIMARY" ELSE "SECONDARY"]
RowRoleSamples == {AlternatingRows, BandedRows}
\* characters of the sample texts: two of the Glyph Table and a digit
BlockAlphabet == {"I", "-", "1"}
\* variable-width tables: the same characters as GLYPHS; the shapes of the
\* characters used in the sample texts vary, the others keep the font grid
RenderTables ==
  {[c \in DOMAIN GLYPHS |->
      IF c \in BlockAlphabet THEN t[c]
      ELSE [width |-> 4, rows |-> GLYPHS[c].glyph.rows]] :
     t \in [BlockAlphabet \cap DOMAIN GLYPHS -> RenderShapes]}
BlockTextSamples == SeqsUpTo(BlockAlphabet, MaxBlockText)
BlockOptionSamples ==
  [theme       : {None, Some("light")},
   blockSize   : {None, Some(1)},
   charSpacing : {None, Some(0)},
   optimize    : {None, Some(FALSE)}]

BlockIdle ==
  /\ bText = << >>
  /\ bOptions = [theme |-> None, blockSize |-> None,
                 charSpacing |-> None, optimize |-> None]
  /\ bGlyphs = << >>
  /\ bRowRoles = << >>
  /\ bBlocks = None
  /\ bSvg = None

BlockInit ==
  /\ bText \in BlockTextSamples
  /\ bOptions \in BlockOptionSamples
  /\ bGlyphs \in RenderTables
  /\ bRowRoles \in RowRoleSamples
  /\ bBlocks = None
  /\ bSvg = None

\* the call blockyTextToSVG(text, options) returns
callBlockyTextToSVG ==
  /\ bSvg = None
  /\ \E layout \in {textToBlocks(bText, bOptions, bGlyphs, bRowRoles)} :
       /\ bBlocks' = Some(layout)
       /\ bSvg' = Some(serialize(layout, blockOptions(bOptions).optimize))
  /\ UNCHANGED <<bText, bOptions, bGlyphs, bRowRoles>>

\* ------------------------------------------------------------------------
\* Specifications
\* ------------------------------------------------------------------------
ValIdle == ValInitVars /\ vfiles = << >> /\ vtools = << >>
PureIdle == GridIdle /\ BlockIdle

Init == GenInit /\ ValIdle /\ ConvIdle /\ PureIdle
Next ==
  \/ entry_main /\ UNCHANGED <<valVars, convVars, pureVars>>
  \/ entry_skip /\ UNCHANGED <<valVars, convVars, pureVars>>
  \/ generateGlyphSVGs /\ UNCHANGED <<valVars, convVars, pureVars>>
  \/ generateGlyphSVGs_throw /\ UNCHANGED <<valVars, convVars, pureVars>>
  \/ generateSVGFont /\ UNCHANGED <<valVars, convVars, pureVars>>
  \/ generateSVGFont_throw /\ UNCHANGED <<valVars, convVars, pureVars>>
  \/ fontStream_finish /\ UNCHANGED <<valVars, convVars, pureVars>>
  \/ fontStream_error /\ UNCHANGED <<valVars, convVars, pureVars>>
  \/ generateTTF /\ UNCHANGED <<valVars, convVars, pureVars>>
  \/ generateWOFF2 /\ UNCHANGED <<valVars, convVars, pureVars>>
  \/ generateWOFF /\ UNCHANGED <<valVars, convVars, pureVars>>
  \/ transcode_throw /\ UNCHANGED <<valVars, convVars, pureVars>>
  \/ saveFonts /\ UNCHANGED <<valVars, convVars, pureVars>>
  \/ saveFonts_throw /\ UNCHANGED <<valVars, convVars, pureVars>>
  \/ main_cleanup /\ UNCHANGED <<valVars, convVars, pureVars>>
  \/ main_cleanup_throw /\ UNCHANGED <<valVars, convVars, pureVars>>
  \/ main_catch /\ UNCHANGED <<valVars, convVars, pureVars>>
  \/ main_catch_throw /\ UNCHANGED <<valVars, convVars, pureVars>>
  \/ unhandledRejection /\ UNCHANGED <<valVars, convVars, pureVars>>
  \/ unhandledRejection_throw /\ UNCHANGED <<valVars, convVars, pureVars>>
  \/ uncaughtException /\ UNCHANGED <<valVars, convVars, pureVars>>
  \/ uncaughtException_throw /\ UNCHANGED <<valVars, convVars, pureVars>>
Spec == Init /\ [][Next]_vars

GenIdle ==
  /\ pc = "idle" /\ run = 0 /\ outDirExists = FALSE /\ tempDirExists = FALSE
  /\ tempFiles = EmptyDir /\ outFiles = EmptyDir /\ fontStream = None
  /\ svgFont = None /\ ttfBuffer = None /\ woff2Buffer = None
  /\ woffBuffer = None /\ stagesDone = << >> /\ failedStage = None
  /\ cleanupCalls = 0 /\ exitCode = None

InitValidate == GenIdle /\ ValInit /\ ConvIdle /\ PureIdle
NextValidate ==
  \/ checkWOFF2 /\ UNCHANGED <<genVars, convVars, pureVars>>
  \/ checkWOFF /\ UNCHANGED <<genVars, convVars, pureVars>>
  \/ checkTTF /\ UNCHANGED <<genVars, convVars, pureVars>>
  \/ verifyFormats /\ UNCHANGED <<genVars, convVars, pureVars>>
  \/ summary /\ UNCHANGED <<genVars, convVars, pureVars>>
SpecValidate == InitValidate /\ [][NextValidate]_vars

InitConvert == GenIdle /\ ValIdle /\ ConvInit /\ PureIdle
NextConvert == callConvertTextToSVG /\ UNCHANGED <<genVars, valVars, pureVars>>
SpecConvert == InitConvert /\ [][NextConvert]_vars

InitGrid == GenIdle /\ ValIdle /\ ConvIdle /\ GridInit /\ BlockIdle
NextGrid == callGridToSVGPath /\ UNCHANGED <<genVars, valVars, convVars, blockVars>>
SpecGrid == InitGrid /\ [][NextGrid]_vars

InitBlock == GenIdle /\ ValIdle /\ ConvIdle /\ GridIdle /\ BlockInit
NextBlock == callBlockyTextToSVG /\ UNCHANGED <<genVars, valVars, convVars, gridVars>>
SpecBlock == InitBlock /\ [][NextBlock]_vars

\* ========================================================================
\* Properties of the generation pipeline (checked under Spec)
\* ========================================================================
StageOrder ==
  <<"generateGlyphSVGs", "generateSVGFont", "generateTTF", "generateWOFF2",
    "generateWOFF", "saveFonts", "cleanup">>
StageIndex(stage) == CHOOSE i \in 1..Len(StageOrder) : StageOrder[i] = stage

\* C1: whenever a run has ended, after success or after any stage threw,
\* cleanup has run and fonts/.temp-glyphs no longer exists.
C1_CleanupOnEveryExit ==
  pc = "exited" =>
    /\ cleanupCalls >= 1
    /\ ~tempDirExists
    /\ tempFiles = EmptyDir

\* the final files this run wrote
WrittenByThisRun == {f \in DOMAIN outFiles : outFiles[f].run = run}

\* C2: a run persists all three final files or none of them; no run that
\* fails, a failed write inside saveFonts included, leaves only some of the
\* three files written by that run.
C2_AllOrNothingOutput ==
  pc = "exited" => WrittenByThisRun \in {{}, FinalFiles}

\* C3: when a stage fails no later stage runs, cleanup is triggered and the
\* process ends with a non-zero exit code; exit code 0 only after all steps.
C3_FailureAborts ==
  /\ failedStage # None =>
       /\ stagesDone = SubSeq(StageOrder, 1, StageIndex(failedStage[1]) - 1)
       /\ pc \in {"catch", "unhandledRejection", "uncaughtException", "exited"}
       /\ pc = "exited" => cleanupCalls >= 1 /\ exitCode # None /\ exitCode[1] # 0
  /\ (exitCode = Some(0)) => stagesDone = StageOrder /\ failedStage = None

\* ========================================================================
\* Properties of the font validator (checked under SpecValidate)
\* ========================================================================
ValidatorFiles == {"woff2", "woff", "ttf"}
MissingOrEmpty(n) == ~vfiles[n].exists \/ vfiles[n].size = 0
WrongFormat ==
  \/ /\ "TrueType" \notin FileDescription(vfiles["ttf"].kind)
     /\ "OpenType" \notin FileDescription(vfiles["ttf"].kind)
  \/ /\ "WOFF" \notin FileDescription(vfiles["woff"].kind)
     /\ "Web Open Font Format" \notin FileDescription(vfiles["woff"].kind)
  \/ HeaderHex(vfiles["woff2"]) # "774f4632"
SummaryLine == <<"all", "validated successfully">>
Printed(line) == \E i \in 1..Len(vout) : vout[i] = line

\* C4: a file larger than its ceiling is only a warning; the script still
\* exits 0 when no file is missing, empty or of the wrong format.
C4_OversizeIsWarning ==
  (vpc = "exited" /\ ~WrongFormat /\ \A n \in ValidatorFiles : ~MissingOrEmpty(n))
    => vexit = Some(0)

\* C5: the validator exits non-zero whenever one of the three files has the
\* wrong format signature.
C5_WrongFormatIsFatal ==
  (vpc = "exited" /\ WrongFormat) => vexit # Some(0)

\* C6: whenever one of the three files is missing or empty, the validator
\* exits non-zero and never prints the success summary.
C6_MissingOrEmptyIsFatal ==
  (\E n \in ValidatorFiles : MissingOrEmpty(n)) =>
    /\ ~Printed(SummaryLine)
    /\ vpc # "summary"
    /\ vpc = "exited" => vexit # None /\ vexit[1] # 0

\* WOFF2 and WOFF passed their blocks, the TTF exists with size zero and the
\* script ended with status 1
C6_Witness ==
  /\ vpc = "exited"
  /\ vfiles["ttf"].exists /\ vfiles["ttf"].size = 0
  /\ Printed(<<"woff", "ok">>)
  /\ Printed(<<"ttf", "empty">>)
  /\ vexit = Some(1)

\* ========================================================================
\* Properties of convertTextToSVG (checked under SpecConvert)
\* ========================================================================
StartsWithAt(s, i, pat) ==
  /\ i + Len(pat) - 1 <= Len(s)
  /\ \A k \in 1..Len(pat) : s[i + k - 1] = pat[k]
IsSubstring(pat, s) == \E i \in 1..(Len(s) + 1) : StartsWithAt(s, i, pat)

\* the string the caller passed ('' for null and undefined)
InputChars == cText.chars

Str_textTag == <<"<", "t", "e", "x", "t", " ">>
\* content of the <text> element of a returned string: what lies between
\* the end of the <text ...> start tag and the closing </text></svg>
TextContent(s) ==
  LET open == CHOOSE i \in 1..Len(s) :
                /\ StartsWithAt(s, i, Str_textTag)
                /\ \A j \in 1..(i - 1) : ~StartsWithAt(s, j, Str_textTag)
      gt   == CHOOSE i \in open..Len(s) :
                s[i] = ">" /\ \A j \in open..(i - 1) : s[j] # ">"
  IN  SubSeq(s, gt + 1, Len(s) - Len(Str_close))

\* the entity the claim assigns to a character
Entities ==
  << <<"&", Str_amp>>, <<"<", Str_lt>>, <<">", Str_gt>>,
     <<"\"", Str_quot>>, <<"'", Str_apos>> >>
EntityOf(c) ==
  IF \E i \in 1..Len(Entities) : Entities[i][1] = c
    THEN Entities[CHOOSE i \in 1..Len(Entities) : Entities[i][1] = c][2]
    ELSE <<c>>
RECURSIVE Expected(_)
Expected(t) ==
  IF t = << >> THEN << >> ELSE EntityOf(Head(t)) \o Expected(Tail(t))

\* decoding the five entities, left to right
RECURSIVE Decode(_)
Decode(s) ==
  IF s = << >> THEN << >>
  ELSE IF \E i \in 1..Len(Entities) : StartsWithAt(s, 1, Entities[i][2])
    THEN LET e == CHOOSE i \in 1..Len(Entities) : StartsWithAt(s, 1, Entities[i][2])
         IN  <<Entities[e][1]>> \o Decode(SubSeq(s, Len(Entities[e][2]) + 1, Len(s)))
    ELSE <<Head(s)>> \o Decode(Tail(s))

\* C7: the content of the <text> element is the input with each of & < > " '
\* replaced by its entity and every other character copied in order, and
\* decoding the five entities gives back the input text.
C7_TextIsXmlEscaped ==
  cResult # None =>
    /\ StartsWithAt(cResult[1], Len(cResult[1]) - Len(Str_close) + 1, Str_close)
    /\ TextContent(cResult[1]) = Expected(InputChars)
    /\ Decode(TextContent(cResult[1])) = InputChars

\* a call returned for a text holding an apostrophe, an ampersand and '<'
C7_Witness ==
  /\ cResult # None
  /\ InputChars = <<"'", "&", "<">>

\* --- well-formedness of a returned string, read as an XML document -------
Whitespace == {" ", "\n", "\t"}
IsNameChar(c) == c \notin (Whitespace \cup {"<", ">", "=", "\"", "'", "&", "/"})
\* first position at or after i whose character satisfies Stop (Len(s) + 1
\* if there is none)
FirstAt(s, i, Stop(_)) ==
  CHOOSE j \in i..(Len(s) + 1) :
    /\ j = Len(s) + 1 \/ Stop(s[j])
    /\ \A k \in i..(j - 1) : ~Stop(s[k])
\* first position at or after i that does not continue a name
NameEnd(s, i) == FirstAt(s, i, LAMBDA c : ~IsNameChar(c))
\* length of the entity reference starting at i (0 if there is none)
EntityLenAt(s, i) ==
  IF \E k \in 1..Len(Entities) : StartsWithAt(s, i, Entities[k][2])
    THEN Len(Entities[CHOOSE k \in 1..Len(Entities) :
                        StartsWithAt(s, i, Entities[k][2])][2])
    ELSE 0

RECURSIVE XmlScan(_, _, _, _)
\* mode: "prolog" before the root element, "tag" inside a start tag right
\* after its name or an attribute, "attr" after white space in a start tag,
\* "value" inside a quoted attribute value, "content" inside an element,
\* "epilog" after the root element; stack: names of the open elements
XmlScan(s, i, mode, stack) ==
  IF i > Len(s) THEN mode = "epilog"
  ELSE
  CASE mode = "prolog" ->
         IF s[i] \in Whitespace THEN XmlScan(s, i + 1, "prolog", stack)
         ELSE /\ s[i] = "<"
              /\ NameEnd(s, i + 1) > i + 1
              /\ XmlScan(s, NameEnd(s, i + 1), "tag",
                         <<SubSeq(s, i + 1, NameEnd(s, i + 1) - 1)>>)
    [] mode = "tag" ->
         IF s[i] = ">" THEN XmlScan(s, i + 1, "content", stack)
         ELSE s[i] \in Whitespace /\ XmlScan(s, i + 1, "attr", stack)
    [] mode = "attr" ->
         IF s[i] = ">" THEN XmlScan(s, i + 1, "content", stack)
         ELSE IF s[i] \in Whitespace THEN XmlScan(s, i + 1, "attr", stack)
         ELSE LET e == NameEnd(s, i) IN
              /\ e > i
              /\ e + 1 <= Len(s)
              /\ s[e] = "="
              /\ s[e + 1] = "\""
              /\ XmlScan(s, e + 2, "value", stack)
    [] mode = "value" ->
         IF s[i] = "\"" THEN XmlScan(s, i + 1, "tag", stack)
         ELSE IF s[i] = "<" THEN FALSE
         ELSE IF s[i] = "&"
           THEN EntityLenAt(s, i) > 0
                /\ XmlScan(s, i + EntityLenAt(s, i), "value", stack)
         ELSE XmlScan(s, FirstAt(s, i, LAMBDA c : c \in {"\"", "<", "&"}),
                      "value", stack)
    [] mode = "content" ->
         IF s[i] = "&"
           THEN EntityLenAt(s, i) > 0
                /\ XmlScan(s, i + EntityLenAt(s, i), "content", stack)
         ELSE IF s[i] # "<"
           THEN XmlScan(s, FirstAt(s, i, LAMBDA c : c \in {"<", "&"}),
                        "content", stack)
         ELSE IF i + 1 <= Len(s) /\ s[i + 1] = "/"
           THEN LET e == NameEnd(s, i + 2) IN
                /\ e <= Len(s)
                /\ s[e] = ">"
                /\ SubSeq(s, i + 2, e - 1) = Head(stack)
                /\ XmlScan(s, e + 1,
                           IF Len(stack) = 1 THEN "epilog" ELSE "content",
                           Tail(stack))
           ELSE /\ NameEnd(s, i + 1) > i + 1
                /\ XmlScan(s, NameEnd(s, i + 1), "tag",
                           <<SubSeq(s, i + 1, NameEnd(s, i + 1) - 1)>> \o stack)
    [] OTHER -> \* "epilog"
         s[i] \in Whitespace /\ XmlScan(s, i + 1, "epilog", stack)

WellFormed(s) == XmlScan(s, 1, "prolog", << >>)

\* C8 as stated: the returned string is well-formed and the exact input
\* string is a substring of it, for every input string.
C8_InputIsSubstring ==
  cResult # None =>
    /\ WellFormed(cResult[1])
    /\ IsSubstring(InputChars, cResult[1])

\* ========================================================================
\* Properties of the Glyph Table (checked under Spec)
\* ========================================================================
DocumentedLetters ==
  {"A", "B", "C", "D", "E", "F", "G", "H", "I", "J", "K", "L", "M", "N",
   "O", "P", "Q", "R", "S", "T", "U", "V", "W", "X", "Y", "Z"}
DocumentedSymbols == {"-", "|", "'", "\"", "?", "!"}

\* C9: the characters defined in GLYPHS are exactly the 26 uppercase letters
\* and the 6 symbols - | ' " ? !, no more and no fewer.
C9_GlyphSetIsDocumented ==
  /\ DOMAIN GLYPHS = DocumentedLetters \cup DocumentedSymbols
  /\ Cardinality(DOMAIN GLYPHS) = 32
  /\ pc = "generateSVGFont" =>
       {c \in DOMAIN tempFiles : tempFiles[c].run = run}
         = DocumentedLetters \cup DocumentedSymbols

\* glyph emission has written one file per table entry, 32 in all
C9_Witness ==
  /\ pc = "generateSVGFont"
  /\ Cardinality({c \in DOMAIN tempFiles : tempFiles[c].run = run}) = 32

\* C10: every glyph has exactly the rows 0..6, each row has exactly 4 cells
\* and every cell is 0 or 1 (so every square of an emitted glyph file lies
\* inside the 4 x 7 grid the file declares).
C10_GridShape ==
  \A c \in DOMAIN GLYPHS :
    LET rows == GLYPHS[c].glyph.rows IN
    /\ DOMAIN rows = 0..6
    /\ \A r \in DOMAIN rows :
         /\ Len(rows[r]) = 4
         /\ \A i \in 1..Len(rows[r]) : rows[r][i] \in {0, 1}
    /\ (c \in DOMAIN tempFiles /\ tempFiles[c].run = run) =>
         LET svg == tempFiles[c].svg IN
         \A k \in 1..Len(svg.d) : \A q \in 1..4 :
           /\ svg.d[k][q][1] \in 0..svg.width
           /\ svg.d[k][q][2] \in 0..svg.height

\* the hyphen glyph, whose grid is four filled cells in row 3, was emitted
C10_Witness ==
  /\ pc = "generateSVGFont"
  /\ "-" \in DOMAIN tempFiles
  /\ tempFiles["-"].run = run
  /\ Len(tempFiles["-"].svg.d) = 4

\* ========================================================================
\* Properties of SVG font assembly (checked under Spec)
\* ========================================================================
\* character codes (String.prototype.charCodeAt) of the keys
CharCode ==
  [c \in DocumentedLetters \cup DocumentedSymbols |->
     CASE c = "-"  -> 45
       [] c = "|"  -> 124
       [] c = "'"  -> 39
       [] c = "\"" -> 34
       [] c = "?"  -> 63
       [] c = "!"  -> 33
       [] OTHER    ->
            64 + (CHOOSE i \in 1..26 : SourceKeyOrder[i] = c)]

\* the glyphs a font stream or font document holds: name |-> code point
Registered(glyphs) == {<<glyphs[i].name, glyphs[i].unicode>> : i \in 1..Len(glyphs)}

\* C11: each entry's unicode is the character code of its key, no two
\* entries share a code point, and SVG font assembly registers exactly one
\* glyph per table entry under that code point, and no other character.
C11_OneGlyphPerEntry ==
  /\ \A c \in DOMAIN GLYPHS : GLYPHS[c].unicode = CharCode[c]
  /\ \A c, d \in DOMAIN GLYPHS : GLYPHS[c].unicode = GLYPHS[d].unicode => c = d
  /\ fontStream # None =>
       /\ Len(fontStream[1]) = Cardinality(Registered(fontStream[1]))
       /\ Registered(fontStream[1]) \subseteq
            {<<c, CharCode[c]>> : c \in DOMAIN GLYPHS}
  /\ (fontStream # None /\ pc = "awaitSVGFont") =>
       /\ Len(fontStream[1]) = Cardinality(DOMAIN GLYPHS)
       /\ Registered(fontStream[1]) = {<<c, CharCode[c]>> : c \in DOMAIN GLYPHS}
  /\ svgFont # None =>
       /\ Len(svgFont[1].glyphs) = Cardinality(DOMAIN GLYPHS)
       /\ Registered(svgFont[1].glyphs) = {<<c, CharCode[c]>> : c \in DOMAIN GLYPHS}

\* the font stream finished with 32 glyphs, the pipe registered under 124
C11_Witness ==
  /\ pc = "generateTTF"
  /\ svgFont # None
  /\ Len(svgFont[1].glyphs) = 32
  /\ <<"|", 124>> \in Registered(svgFont[1].glyphs)

\* ========================================================================
\* Properties of gridToSVGPath (checked under SpecGrid)
\* ========================================================================
\* the filled cells of a grid, as <<row, col>> with col counted from 0
FilledCells(grid) ==
  {rc \in (0..6) \X (0..3) : rc[1] \in DOMAIN grid /\ grid[rc[1]][rc[2] + 1] = 1}
\* 'M x,y L x+s,y L x+s,y+s L x,y+s Z' for x = col * 100, y = row * 100
Square(rc) ==
  LET x == rc[2] * 100
      y == rc[1] * 100
  IN  << <<x, y>>, <<x + 100, y>>, <<x + 100, y + 100>>, <<x, y + 100>> >>

\* C12: gridToSVGPath emits exactly one closed sub-path per filled cell and
\* none for empty cells; the sub-path of the cell at (row, col) is the square
\* with corner (col * 100, row * 100) and side 100.
C12_OneSquarePerFilledCell ==
  gPath # None =>
    LET path == gPath[1] IN
    /\ Len(path) = Cardinality(FilledCells(gGrid))
    /\ \A rc \in FilledCells(gGrid) :
         Cardinality({k \in 1..Len(path) : path[k] = Square(rc)}) = 1
    /\ \A k \in 1..Len(path) : \E rc \in FilledCells(gGrid) : path[k] = Square(rc)

\* the call returned for the grid of Q, which has filled cells in five rows
C12_Witness ==
  /\ gPath # None
  /\ gGrid = GLYPHS["Q"].glyph.rows
  /\ Len(gPath[1]) = 13

\* row and column of a sub-path, read from its first point
CellOf(sub) == <<sub[1][2] \div 100, sub[1][1] \div 100>>
\* two squares share area when their corners are closer than a side in both axes
Overlap(a, b) ==
  /\ a[1][1] < b[1][1] + 100 /\ b[1][1] < a[1][1] + 100
  /\ a[1][2] < b[1][2] + 100 /\ b[1][2] < a[1][2] + 100

\* C13: the sub-paths appear in row-major order (rows ascending, columns
\* ascending within a row) and no two emitted squares overlap.
C13_RowMajorNoOverlap ==
  gPath # None =>
    LET path == gPath[1] IN
    \A k, m \in 1..Len(path) :
      k < m =>
        /\ \/ CellOf(path[k])[1] < CellOf(path[m])[1]
           \/ /\ CellOf(path[k])[1] = CellOf(path[m])[1]
              /\ CellOf(path[k])[2] < CellOf(path[m])[2]
        /\ ~Overlap(path[k], path[m])

\* the call returned for the grid of K, with several cells in every row 1..5
C13_Witness ==
  /\ gPath # None
  /\ gGrid = GLYPHS["K"].glyph.rows
  /\ Len(gPath[1]) = 10
  /\ CellOf(gPath[1][1]) = <<1, 0>>
  /\ CellOf(gPath[1][2]) = <<1, 3>>

\* a grid with every row 0..6 present, the absent ones as four empty cells
Completed(grid) ==
  [r \in 0..6 |-> IF r \in DOMAIN grid THEN grid[r] ELSE <<0, 0, 0, 0>>]

\* C14: gridToSVGPath returns for every grid with any subset of the rows
\* 0..6 defined; an absent row counts as four empty cells, and a grid with
\* no filled cell (or no rows) yields the empty path.
C14_PartialGridsAccepted ==
  /\ gPath # None =>
       /\ gPath[1] = gridToSVGPath(Completed(gGrid))
       /\ FilledCells(gGrid) = {} => gPath[1] = << >>
       /\ \A k \in 1..Len(gPath[1]) : CellOf(gPath[1][k])[1] \in DOMAIN gGrid
  /\ gPath = None => ENABLED callGridToSVGPath

\* the call returned for a grid whose only defined row is row 5, all filled
C14_Witness ==
  /\ gPath # None
  /\ DOMAIN gGrid = {5}
  /\ gGrid[5] = <<1, 1, 1, 1>>
  /\ Len(gPath[1]) = 4

\* ========================================================================
\* Properties of transcoding and persistence (checked under Spec)
\* ========================================================================
\* buf is a container of format fmt computed from the TTF buffer ttf
FromTtf(buf, fmt, ttf) ==
  /\ buf.fmt = fmt
  /\ buf.from = "ttf"
  /\ buf.run = ttf.run
  /\ buf.glyphs = ttf.glyphs

\* C15: WOFF2 and WOFF are each produced from the TTF buffer returned by
\* generateTTF, neither from the other, and the TTF that is saved is the
\* buffer both were derived from.
C15_BothFromSameTtf ==
  /\ ttfBuffer # None =>
       ttfBuffer[1].fmt = "ttf" /\ ttfBuffer[1].glyphs = svgFont[1].glyphs
  /\ woff2Buffer # None => FromTtf(woff2Buffer[1], "woff2", ttfBuffer[1])
  /\ woffBuffer # None => FromTtf(woffBuffer[1], "woff", ttfBuffer[1])
  /\ (\E i \in 1..Len(stagesDone) : stagesDone[i] = "saveFonts") =>
       /\ outFiles["OpenCodeLogo.ttf"] = ttfBuffer[1]
       /\ FromTtf(outFiles["OpenCodeLogo.woff2"], "woff2", outFiles["OpenCodeLogo.ttf"])
       /\ FromTtf(outFiles["OpenCodeLogo.woff"], "woff", outFiles["OpenCodeLogo.ttf"])

\* both containers exist and the three buffers were saved
C15_Witness ==
  /\ pc = "cleanup"
  /\ woff2Buffer # None /\ woffBuffer # None
  /\ outFiles["OpenCodeLogo.woff"] = woffBuffer[1]
  /\ outFiles["OpenCodeLogo.woff"].from = "ttf"
  /\ outFiles["OpenCodeLogo.ttf"].run = run

\* C16: a successful run writes exactly the three files OpenCodeLogo.ttf,
\* OpenCodeLogo.woff and OpenCodeLogo.woff2 under fonts/, and when it ends
\* nothing else the run created remains there.
C16_ExactlyThreeFiles ==
  (pc = "exited" /\ exitCode = Some(0)) =>
    /\ WrittenByThisRun =
         {"OpenCodeLogo.ttf", "OpenCodeLogo.woff", "OpenCodeLogo.woff2"}
    /\ \A f \in WrittenByThisRun : outFiles[f].fmt \in {"ttf", "woff", "woff2"}
    /\ ~tempDirExists
    /\ {c \in DOMAIN tempFiles : tempFiles[c].run = run} = {}

\* what SVG font assembly holds when it is computed from GLYPHS alone
GlyphsFromTable ==
  [i \in 1..Len(GlyphOrder) |->
     [unicode |-> GLYPHS[GlyphOrder[i]].unicode,
      name    |-> GlyphOrder[i],
      svg     |-> GlyphSVG(GlyphOrder[i])]]
Contents(glyphs) ==
  [i \in 1..Len(glyphs) |->
     [unicode |-> glyphs[i].unicode, name |-> glyphs[i].name,
      svg |-> glyphs[i].data.svg]]

\* C17: no state crosses invocations: every temp glyph file read during SVG
\* font assembly was written earlier in the same run, so the three files a
\* run produces depend on GLYPHS only, whatever earlier runs left on disk.
C17_NoStateAcrossRuns ==
  /\ fontStream # None =>
       /\ \A i \in 1..Len(fontStream[1]) : fontStream[1][i].data.run = run
       /\ Len(fontStream[1]) <= Len(GlyphsFromTable)
       /\ Contents(fontStream[1]) =
            SubSeq(GlyphsFromTable, 1, Len(fontStream[1]))
  /\ svgFont # None => Contents(svgFont[1].glyphs) = GlyphsFromTable
  /\ (\E i \in 1..Len(stagesDone) : stagesDone[i] = "saveFonts") =>
       \A f \in FinalFiles :
         /\ outFiles[f].run = run
         /\ Contents(outFiles[f].glyphs) = GlyphsFromTable

\* the fonts were generated and saved in directories that an earlier process
\* left behind: its stale file 0.svg is still in the temp directory, the
\* glyphs read and the three files saved are this run's
C17_Witness ==
  /\ pc = "cleanup"
  /\ "0" \in DOMAIN tempFiles
  /\ tempFiles["0"].run = 0
  /\ \A i \in 1..Len(svgFont[1].glyphs) : svgFont[1].glyphs[i].data.run = run
  /\ \A f \in FinalFiles : outFiles[f].run = run

\* ========================================================================
\* Properties of blocky rendering (checked under SpecBlock)
\* ========================================================================
\* the text without the characters that have no entry in the Glyph Table
SupportedOnly(text) == SelectSeq(text, LAMBDA c : c \in DOMAIN GLYPHS)

\* C18: blockyTextToSVG drops every character that is not in the Glyph Table
\* and never fails on it: the output equals the output for the text with all
\* unsupported characters removed, the options being the same.
C18_UnsupportedDropped ==
  bSvg # None =>
       /\ bSvg[1] = blockyTextToSVG(SupportedOnly(bText), bOptions, bGlyphs,
                                   bRowRoles)
       /\ \A i \in 1..Len(bSvg[1].paths) :
            /\ bSvg[1].paths[i].x >= 0
            /\ bSvg[1].paths[i].x + bSvg[1].paths[i].width <= bSvg[1].width
            /\ bSvg[1].paths[i].y + bSvg[1].paths[i].height <= bSvg[1].height
       /\ Len(bBlocks[1].chars) = Len(SupportedOnly(bText))
       /\ \A i \in 1..Len(bBlocks[1].chars) :
            bBlocks[1].chars[i].char = SupportedOnly(bText)[i]

\* a digit between two supported characters was rendered
C18_Witness ==
  /\ bSvg # None
  /\ bText = <<"I", "1", "-">>
  /\ Len(bBlocks[1].chars) = 2
  /\ bSvg[1].paths # << >>

\* the cells of side size covered by a sequence of rectangles
Covered(paths, size) ==
  UNION {{[x |-> paths[i].x + k * size, y |-> paths[i].y + j * size] :
            k \in 0..(paths[i].width \div size) - 1,
            j \in 0..(paths[i].height \div size) - 1} : i \in 1..Len(paths)}
RECURSIVE Area(_, _)
Area(paths, i) ==
  IF i > Len(paths) THEN 0
  ELSE paths[i].width * paths[i].height + Area(paths, i + 1)

\* C19: for any text and otherwise equal options, the outputs with optimize
\* true and with optimize false cover exactly the same set of filled cells,
\* and the optimize false output never has fewer paths than the optimize
\* true output.
C19_OptimizerInvariance ==
  bSvg # None =>
    LET size  == blockOptions(bOptions).blockSize
        plain == blockyTextToSVG(bText, [bOptions EXCEPT !.optimize = Some(FALSE)],
                                 bGlyphs, bRowRoles)
        opt   == blockyTextToSVG(bText, [bOptions EXCEPT !.optimize = Some(TRUE)],
                                 bGlyphs, bRowRoles)
    IN  /\ bSvg[1] = IF blockOptions(bOptions).optimize THEN opt ELSE plain
        /\ Covered(opt.paths, size) = Covered(plain.paths, size)
        /\ Area(opt.paths, 1) = Area(plain.paths, 1)
        /\ Len(plain.paths) >= Len(opt.paths)
        /\ opt.width = plain.width /\ opt.height = plain.height

\* an optimized document in which rectangles were merged, some along a row
\* and some down a column
C19_Witness ==
  /\ bSvg # None
  /\ blockOptions(bOptions).optimize
  /\ \E i \in 1..Len(bSvg[1].paths) :
       bSvg[1].paths[i].width > blockOptions(bOptions).blockSize
  /\ \E i \in 1..Len(bSvg[1].paths) :
       bSvg[1].paths[i].height > blockOptions(bOptions).blockSize
  /\ Len(bSvg[1].paths) <
       Len(blockyTextToSVG(bText, [bOptions EXCEPT !.optimize = Some(FALSE)],
                           bGlyphs, bRowRoles).paths)

\* horizontal gaps between consecutive rendered characters of a layout
Gaps(layout, size) ==
  [i \in 1..Len(layout.chars) - 1 |->
     layout.chars[i + 1].x - (layout.chars[i].x + layout.chars[i].cols * size)]

\* C20: for fixed options, appending characters to the text never decreases
\* the bounding-box width, and a larger charSpacing gives a strictly larger
\* horizontal gap between two consecutive rendered characters.
C20_LayoutMonotone ==
  bSvg # None =>
    LET o == blockOptions(bOptions)
    IN  /\ bSvg[1].width = bBlocks[1].width
        /\ \A more \in SeqsUpTo(BlockAlphabet, 2) :
             blockyTextToSVG(bText \o more, bOptions, bGlyphs, bRowRoles).width
               >= bSvg[1].width
        /\ \A wider \in {o.charSpacing + 1, o.charSpacing + 2} :
             LET spaced == textToBlocks(bText,
                             [bOptions EXCEPT !.charSpacing = Some(wider)], bGlyphs,
                             bRowRoles)
             IN  /\ Len(spaced.chars) = Len(bBlocks[1].chars)
                 /\ \A i \in 1..Len(spaced.chars) - 1 :
                      Gaps(spaced, o.blockSize)[i]
                        > Gaps(bBlocks[1], o.blockSize)[i]

\* two characters were rendered next to each other without spacing
C20_Witness ==
  /\ bSvg # None
  /\ Len(bBlocks[1].chars) >= 2
  /\ bOptions.charSpacing = Some(0)
  /\ Gaps(bBlocks[1], blockOptions(bOptions).blockSize)[1] = 0
  /\ bSvg[1].width > 0

\* the blocks of a layout, character after character
RECURSIVE AllBlocks(_, _)
AllBlocks(chars, i) ==
  IF i > Len(chars) THEN << >>
  ELSE chars[i].blocks \o AllBlocks(chars, i + 1)
Geometry(b) == [x |-> b.x, y |-> b.y, width |-> b.width, height |-> b.height]
OtherTheme(theme) == IF theme = "dark" THEN "light" ELSE "dark"

\* C21: for the same text, blockSize and charSpacing, switching the theme
\* between dark and light leaves the number of blocks and the position and
\* size of every block unchanged; only the fill colours differ.
C21_ThemeKeepsGeometry ==
  bSvg # None =>
    LET here     == AllBlocks(bBlocks[1].chars, 1)
        switched == textToBlocks(bText,
                      [bOptions EXCEPT
                         !.theme = Some(OtherTheme(blockOptions(bOptions).theme))],
                      bGlyphs, bRowRoles)
        there    == AllBlocks(switched.chars, 1)
    IN  /\ Len(there) = Len(here)
        /\ switched.width = bBlocks[1].width
        /\ switched.height = bBlocks[1].height
        /\ \A i \in 1..Len(here) :
             /\ Geometry(there[i]) = Geometry(here[i])
             /\ there[i].fill # here[i].fill
             /\ there[i].fill.role = here[i].fill.role

\* a text with blocks was laid out in the light theme
C21_Witness ==
  /\ bSvg # None
  /\ bOptions.theme = Some("light")
  /\ Len(bBlocks[1].chars) >= 2
  /\ AllBlocks(bBlocks[1].chars, 1) # << >>
  /\ AllBlocks(bBlocks[1].chars, 1)[1].fill.theme = "light"

\* sum over the rendered characters of (glyphWidth + charSpacing) * blockSize
RECURSIVE WidthSum(_, _, _)
WidthSum(text, o, glyphs) ==
  IF text = << >> THEN 0
  ELSE (glyphs[Head(text)].width + o.charSpacing) * o.blockSize
         + WidthSum(Tail(text), o, glyphs)

\* C22: the empty string, and any text made only of unsupported characters,
\* yields an empty block sequence with bounding-box width 0 and height
\* 7 * blockSize; for any text the width is the sum over the rendered
\* characters of (glyphWidth + charSpacing) * blockSize.
C22_EmptyAndWidth ==
  bSvg # None =>
    LET o == blockOptions(bOptions)
    IN  /\ bBlocks[1].width = WidthSum(SupportedOnly(bText), o, bGlyphs)
        /\ bBlocks[1].height = 7 * o.blockSize
        /\ bSvg[1].width = bBlocks[1].width
        /\ bSvg[1].height = bBlocks[1].height
        /\ SupportedOnly(bText) = << >> =>
             /\ bBlocks[1].chars = << >>
             /\ bBlocks[1].width = 0
             /\ bSvg[1].paths = << >>

\* a text of digits only was laid out
C22_Witness ==
  /\ bSvg # None
  /\ bText = <<"1", "1">>
  /\ bBlocks[1].chars = << >>
  /\ bSvg[1].width = 0
  /\ bSvg[1].height > 0

\* ========================================================================
\* Further properties of the Glyph Table and the pipeline
\* ========================================================================
\* C23: every one of the 32 glyphs of the Glyph Table has at least one filled
\* cell, so gridToSVGPath yields a non-empty path for each; the hyphen glyph
\* has filled cells in exactly one row.
C23_EveryGlyphHasInk ==
  gPath # None =>
    /\ Cardinality(DOMAIN GLYPHS) = 32
    /\ (\E c \in DOMAIN GLYPHS : gGrid = GLYPHS[c].glyph.rows) =>
         /\ FilledCells(gGrid) # {}
         /\ gPath[1] # << >>
    /\ gGrid = GLYPHS["-"].glyph.rows =>
         Cardinality({CellOf(gPath[1][k])[1] : k \in 1..Len(gPath[1])}) = 1

\* the path of the hyphen glyph was computed: four squares, all in row 3
C23_Witness ==
  /\ gPath # None
  /\ gGrid = GLYPHS["-"].glyph.rows
  /\ Len(gPath[1]) = 4
  /\ \A k \in 1..4 : CellOf(gPath[1][k])[1] = 3

IsPrefix(s, t) == Len(s) <= Len(t) /\ \A i \in 1..Len(s) : s[i] = t[i]
Done(stage) == \E i \in 1..Len(stagesDone) : stagesDone[i] = stage

\* C24: the pipeline is strictly linear: SVG font assembly starts only after
\* all 32 glyph SVG files are written, TTF transcoding only after the SVG
\* font stream has finished, WOFF2 and WOFF only after the TTF exists, saving
\* only after all three buffers exist, and no stage runs twice within a run.
C24_StrictlyLinear ==
  /\ IsPrefix(stagesDone, StageOrder)
  /\ cleanupCalls <= 1
  /\ fontStream # None =>
       /\ Done("generateGlyphSVGs")
       /\ Len(fontStream[1]) <= 32
       /\ \A i \in 1..Len(fontStream[1]) : fontStream[1][i].data.run = run
  /\ pc = "generateSVGFont" =>
       \A c \in DOMAIN GLYPHS :
         /\ c \in DOMAIN tempFiles
         /\ tempFiles[c] = [run |-> run, svg |-> GlyphSVG(c)]
  /\ pc \in {"generateGlyphSVGs", "generateSVGFont", "awaitSVGFont"} =>
       ttfBuffer = None
  /\ ttfBuffer # None => svgFont # None /\ Done("generateSVGFont")
  /\ woff2Buffer # None => ttfBuffer # None /\ Done("generateTTF")
  /\ woffBuffer # None => ttfBuffer # None /\ Done("generateTTF")
  /\ WrittenByThisRun # {} =>
       /\ ttfBuffer # None /\ woff2Buffer # None /\ woffBuffer # None
       /\ Done("generateWOFF")

\* ========================================================================
\* Further properties of the validator (checked under SpecValidate)
\* ========================================================================
Ceiling(n) ==
  IF n = "woff2" THEN 51200 ELSE IF n = "woff" THEN 102400 ELSE 204800
Results == {"missing", "exceeds limit", "empty", "ok"}
Reported(n) == \E r \in Results : Printed(<<n, r>>)

\* C25: a file is within budget only when its size is strictly under the
\* ceiling: a file of exactly 51200 (WOFF2), 102400 (WOFF) or 204800 (TTF)
\* bytes is flagged as a size-ceiling breach.
C25_CeilingIsStrict ==
  \A n \in ValidatorFiles :
    (Reported(n) /\ vfiles[n].exists /\ vfiles[n].size >= Ceiling(n))
      => Printed(<<n, "exceeds limit">>)

TotalPrinted == \E i \in 1..Len(vout) : vout[i][1] = "total"

\* C26 as stated: on every run, whatever the outcome, the validator prints a
\* pass or fail result for each of the three files and a final size summary.
C26_AlwaysReportsAll ==
  vpc = "exited" =>
    /\ \A n \in ValidatorFiles : Reported(n)
    /\ TotalPrinted

\* ========================================================================
\* Further properties of convertTextToSVG (checked under SpecConvert)
\* ========================================================================
\* C27: the TypeScript convertTextToSVG / escapeXml and the JavaScript
\* convertTextToSVG / escapeXml kept in the same file return the same string
\* for every text (null and undefined included) and every options object.
C27_SameAsJavaScript ==
  cResult # None =>
    /\ cResult[1] = convertTextToSVG_js(cText, cOptions)
    /\ escapeXml(cText) = escapeXml_js(cText)
    /\ TextContent(cResult[1]) = escapeXml_js(cText)

\* a call returned for a text with an apostrophe and an unescaped letter
C27_Witness ==
  /\ cResult # None
  /\ cText = StringValue(<<"'", "A", "<">>)
  /\ cOptions # DefaultOptions
  /\ cResult[1] = convertTextToSVG_js(cText, cOptions)

\* the document for an empty text and no options
EmptyDefaultSvg ==
  <<"<","s","v","g"," ","x","m","l","n","s","=","\"","h","t","t","p",":","/",
    "/","w","w","w",".","w","3",".","o","r","g","/","2","0","0","0","/","s",
    "v","g","\""," ","v","i","e","w","B","o","x","=","\"","0"," ","0"," ","1",
    "0","0"," ","2","0","\"",">","\n"," "," ","<","t","e","x","t"," ","x","=",
    "\"","0","\""," ","y","=","\"","1","4","\""," ","f","o","n","t","-","f",
    "a","m","i","l","y","=","\"","O","p","e","n","C","o","d","e","L","o","g",
    "o","\""," ","f","o","n","t","-","s","i","z","e","=","\"","4","8","\"",
    " ","f","i","l","l","=","\"","#","0","0","0","\"",">","<","/","t","e","x",
    "t",">","\n","<","/","s","v","g",">">>

\* C28: convertTextToSVG never throws on a null or undefined text: it returns
\* the same SVG as for the empty string, an <svg> with a <text> element of
\* empty content, with the option defaults (font-size 48, fill #000,
\* font-family OpenCodeLogo) applied.
C28_NullTextIsEmptyText ==
  (cResult # None /\ cText \in {Null, Undefined}) =>
    /\ cResult[1] = convertTextToSVG(StringValue(<< >>), cOptions)
    /\ TextContent(cResult[1]) = << >>
    /\ cOptions = DefaultOptions => cResult[1] = EmptyDefaultSvg

\* the call with a null text and no options returned
C28_Witness ==
  /\ cResult # None
  /\ cText = Null
  /\ cOptions = DefaultOptions
  /\ Len(cResult[1]) > 0

====
